---- MODULE Spec2Model ----
(***************************************************************************)
(* A model of LogFinder's change-attribution engine:                       *)
(*   p7_create_test_data.py  VersionResolver, GitDiffAnalyzer,             *)
(*                           process_single_issue                          *)
(*   src/commit_finder.py    CommitFinder._parse_diff_chunks               *)
(*                                                                         *)
(* Text is modelled as a sequence of tokens.  A token is a string that     *)
(* stands for a run of characters which no test of the program ever        *)
(* splits; the characters the program does test one by one ("-", "+",      *)
(* "@", " ", ",", the digits) are tokens of their own.                     *)
(***************************************************************************)
EXTENDS Integers, Sequences, FiniteSets, TLC

VARIABLES
    \* ---- VersionResolver (p7_create_test_data.py:35-88)
    repo,             \* the git.Repo: tags, heads, other refs, origin url, working_dir
    version,          \* the version string handed to resolve
    git_fail,         \* the git operation that raises GitCommandError, or "none"
    tag_prefixes,     \* self.tag_prefixes, set by __init__
    resolve_result,   \* what resolve returned to its caller
    resolve_pc,       \* "new" | "constructed" | "returned" | "raised"
    \* ---- GitDiffAnalyzer._match_with_fix_commit (p7_create_test_data.py:368-436)
    file_path,        \* the key of the file in the cross-diff
    diff_results,     \* {file_path: diff_data}, a dict in insertion order
    commit_data,      \* the fix commit record; files_changed.files is commit_data.files
    fix_file_path,    \* the file's path in the fix commit, NoPath for None
    match_result,     \* what _match_with_fix_commit returned
    match_pc,         \* "call" | "returned"
    \* ---- CommitFinder._parse_diff_chunks (src/commit_finder.py:326-380)
    diff_text,        \* diff_text.split('\n'): the lines of one file's patch
    parsed_chunks,    \* the list _parse_diff_chunks returned
    chunks_pc,        \* "call" | "returned"
    \* ---- GitDiffAnalyzer.analyze_fix_commit (p7_create_test_data.py:235-366);
    \*      its resolver is repo, tag_prefixes, git_fail; its arguments are
    \*      version (affected_version) and commit_data
    cross_diff,       \* what git diff <affected sha> <fix sha> does: [raised, lines]
    analysis_result,  \* the dict analyze_fix_commit returned
    analyze_pc,       \* "call" | "returned"
    \* ---- process_single_issue (p7_create_test_data.py:439-483)
    base_repo,        \* the repository handed in: the clone at Config's local_path
    issue_data,       \* [affects, commits]: issue.affects and the commits list
    temp_repo,        \* the clone in the temporary directory, NoRepo outside the with block
    temp_dirs,        \* the positions in affects whose temporary directory exists
    vi,               \* position of the affected version being processed
    ci,               \* position of the next fix commit
    results,          \* the list results
    unit_log,         \* what happened to each (version, commit) unit, in order:
                      \* [version, commit, checked_out, git_fail, diff_raised]
    issue_return,     \* what process_single_issue returned
    issue_pc,         \* "start" | "clone" | "commit" | "returned" | "raised"
    \* ---- CommitFinder._get_commit_file_changes (src/commit_finder.py:237-313)
    commit_obj,       \* the git.Commit: parents, what its diff and stats give, the git call that raises
    files_changed,    \* the dict _get_commit_file_changes returned
    changes_pc,       \* "call" | "returned"
    \* ---- CommitFinder._search_project_commits (src/commit_finder.py:117-234)
    references,       \* repo.references: a sequence of [name, commits], commits as iter_commits gives them
    issues,           \* the issue keys of the project, in the order of the input
    all_branches,     \* the names of the references that are scanned
    project_results,  \* issue key -> [commits, commit_count]
    seen_commits,     \* the set seen_commits
    commits_processed,    \* the counter commits_processed
    commits_with_matches, \* the counter commits_with_matches
    branch_idx,       \* position in all_branches
    commit_idx,       \* position in the commits of the branch
    matched_log,      \* the commits whose message reached the matching of lines 188-196, in order
    search_pc,        \* "start" | "scan" | "returned"
    \* ---- process_issues (p7_create_test_data.py:486-546)
    config_repositories,  \* config.repositories with the state of each local_path: project -> [path_exists, opens]
    input_data,       \* the loaded input: project -> issue key -> issue data
    batch_results,    \* the dict results
    batch_project_results, \* the dict project_results of the project being processed
    batch_repo,       \* the opened repository of the project being processed
    output_file,      \* the output file: NoFile until save_json writes it
    pi,               \* position of the project in the input
    ii,               \* position of the issue in the project
    batch_pc,         \* "start" | "project" | "issue" | "saved" | "exited" | "raised"
    \* ---- GitDiffAnalyzer.parse_diff_output (p7_create_test_data.py:140-233)
    diff_output,      \* the text handed to parse_diff_output, as lines
    parse_results,    \* the dict it returns
    parse_pc          \* "call" | "returned"

resolveVars == <<repo, version, git_fail, tag_prefixes, resolve_result, resolve_pc>>
matchVars == <<file_path, diff_results, commit_data, fix_file_path, match_result, match_pc>>

chunkVars == <<diff_text, parsed_chunks, chunks_pc>>

analyzeVars == <<cross_diff, analysis_result, analyze_pc>>

issueVars == <<base_repo, issue_data, temp_repo, temp_dirs, vi, ci, results, unit_log,
               issue_return, issue_pc>>

fileChangesVars == <<commit_obj, files_changed, changes_pc>>

searchVars == <<references, issues, all_branches, project_results, seen_commits,
                commits_processed, commits_with_matches, branch_idx, commit_idx, matched_log,
                search_pc>>

batchVars == <<config_repositories, input_data, batch_results, batch_project_results,
               batch_repo, output_file, pi, ii, batch_pc>>

parseVars == <<diff_output, parse_results, parse_pc>>

vars == <<resolveVars, matchVars, chunkVars, analyzeVars, issueVars, fileChangesVars, searchVars, batchVars, parseVars>>

(***************************************************************************)
(* Text helpers                                                            *)
(***************************************************************************)

\* str.startswith
StartsWith(s, p) == Len(s) >= Len(p) /\ SubSeq(s, 1, Len(p)) = p

\* str.lower, token by token
Lower(t) ==
    CASE t = "ZooKeeper" -> "zookeeper"
      [] t = "HBase"     -> "hbase"
      [] t = "Kafka"     -> "kafka"
      [] OTHER           -> t

\* word in s.lower()   (word is one token)
InLower(word, s) == \E i \in 1..Len(s) : Lower(s[i]) = word

\* str.endswith
EndsWith(s, p) == Len(s) >= Len(p) /\ SubSeq(s, Len(s) - Len(p) + 1, Len(s)) = p

IsSpace(t) == t \in {" ", "\t"}

RECURSIVE LStrip(_)
LStrip(s) == IF s # <<>> /\ IsSpace(Head(s)) THEN LStrip(Tail(s)) ELSE s

RECURSIVE RStrip(_)
RStrip(s) == IF s # <<>> /\ IsSpace(s[Len(s)]) THEN RStrip(SubSeq(s, 1, Len(s) - 1)) ELSE s

\* str.strip
Strip(s) == RStrip(LStrip(s))

\* sorted(S) for a set of integers
RECURSIVE Sorted(_)
Sorted(S) ==
    IF S = {} THEN <<>>
    ELSE LET m == CHOOSE x \in S : \A y \in S : x <= y
         IN  <<m>> \o Sorted(S \ {m})

Range(s) == {s[i] : i \in DOMAIN s}

\* a Python dict: a sequence of [key, data] in insertion order, keys distinct
DictKeys(d) == {d[i].key : i \in DOMAIN d}
DictGet(d, k) == d[CHOOSE i \in DOMAIN d : d[i].key = k].data
DictPut(d, k, v) ==
    IF k \in DictKeys(d)
    THEN [i \in DOMAIN d |-> IF d[i].key = k THEN [key |-> k, data |-> v] ELSE d[i]]
    ELSE Append(d, [key |-> k, data |-> v])

\* None or '' where a path is expected
NoPath == <<>>

(***************************************************************************)
(* Values                                                                  *)
(***************************************************************************)

None   == [ref |-> "None",  name |-> <<>>]
FalseV == [ref |-> "False", name |-> <<>>]
Raised == [ref |-> "raised", name |-> <<>>]

\* the commit a reference points to; distinct references are given distinct
\* commits, so that a returned commit tells which rule produced it
Commit(kind, n) == [ref |-> kind, name |-> n]

\* Python truthiness of a resolve result: `not x`
Falsy(x) == x \in {None, FalseV}

\* None where a dict is expected (_match_with_fix_commit, file_changes)
NoResult == [none |-> TRUE]

(***************************************************************************)
(* The values a component's variables hold in a specification that does    *)
(* not run it                                                              *)
(***************************************************************************)

ResolveIdle ==
    /\ repo = [tags |-> {}, heads |-> {}, refs |-> {}, origin_url |-> <<>>, working_dir |-> <<>>]
    /\ version = <<>>
    /\ git_fail = "none"
    /\ tag_prefixes = <<>>
    /\ resolve_result = None
    /\ resolve_pc = "idle"

MatchIdle ==
    /\ file_path = NoPath
    /\ diff_results = <<>>
    /\ commit_data = [files |-> <<>>]
    /\ fix_file_path = NoPath
    /\ match_result = NoResult
    /\ match_pc = "idle"

ChunksIdle ==
    /\ diff_text = <<>>
    /\ parsed_chunks = <<>>
    /\ chunks_pc = "idle"

AnalyzeIdle ==
    /\ cross_diff = [raised |-> FALSE, lines |-> <<>>]
    /\ analysis_result = NoResult
    /\ analyze_pc = "idle"

\* no repository
NoRepo ==
    [tags |-> {}, heads |-> {}, refs |-> {}, origin_url |-> <<>>, working_dir |-> <<>>,
     objects |-> {}, active_branch |-> <<>>, head |-> <<>>]

IssueIdle ==
    /\ base_repo = NoRepo
    /\ issue_data = [affects |-> <<>>, commits |-> <<>>]
    /\ temp_repo = NoRepo
    /\ temp_dirs = {}
    /\ vi = 0
    /\ ci = 0
    /\ results = <<>>
    /\ unit_log = <<>>
    /\ issue_return = NoResult
    /\ issue_pc = "idle"

\* no commit
NoCommit == [hexsha |-> <<>>, parents |-> <<>>, message |-> <<>>, diff_items |-> <<>>,
             git_fail |-> "none"]

FileChangesIdle ==
    /\ commit_obj = NoCommit
    /\ files_changed = NoResult
    /\ changes_pc = "idle"

SearchIdle ==
    /\ references = <<>>
    /\ issues = <<>>
    /\ all_branches = <<>>
    /\ project_results = <<>>
    /\ seen_commits = {}
    /\ commits_processed = 0
    /\ commits_with_matches = 0
    /\ branch_idx = 0
    /\ commit_idx = 0
    /\ matched_log = <<>>
    /\ search_pc = "idle"

\* the output file before save_json, and what save_json makes of it (line 542)
NoFile == [written |-> FALSE, json |-> <<>>]
save_json(data) == [written |-> TRUE, json |-> data]

BatchIdle ==
    /\ config_repositories = <<>>
    /\ input_data = <<>>
    /\ batch_results = <<>>
    /\ batch_project_results = <<>>
    /\ batch_repo = NoRepo
    /\ output_file = NoFile
    /\ pi = 0
    /\ ii = 0
    /\ batch_pc = "idle"

ParseIdle ==
    /\ diff_output = <<>>
    /\ parse_results = <<>>
    /\ parse_pc = "idle"

(***************************************************************************)
(* VersionResolver                                                         *)
(***************************************************************************)

MutDetectPrefixOrder(r) == <<"V", "v", "release-", "rel/", "">>

\* VersionResolver._detect_tag_prefixes: "" is the empty prefix
detect_tag_prefixes(r) ==
    LET remote_url == IF r.origin_url # <<>> THEN r.origin_url ELSE r.working_dir
    IN  IF InLower("zookeeper", remote_url) THEN <<"release-", "RELEASE-", "">>
        ELSE IF InLower("hbase", remote_url) THEN <<"rel/", "REL/", "">>
        ELSE <<"v", "V", "release-", "rel/", "">>

\* f"{prefix}{version}"
TagName(prefix, v) == IF prefix = "" THEN v ELSE <<prefix>> \o v

MutHandleReraise(func_name, outcome) == outcome

\* handle_git_errors: the wrapper around a decorated function whose body ended
\* with `outcome` (Raised when it raised)
handle_git_errors(func_name, outcome) ==
    IF outcome = Raised
    THEN IF StartsWith(func_name, <<"get_">>) THEN None ELSE FalseV
    ELSE outcome

MutResolveBranchFirst(r, prefixes, v, fail) ==
    IF fail = "tags" THEN Raised
    ELSE IF v \in r.heads THEN Commit("head", v)
    ELSE IF v \in r.tags THEN Commit("tag", v)
    ELSE LET hits == {i \in 1..Len(prefixes) : TagName(prefixes[i], v) \in r.tags}
         IN  IF hits # {}
             THEN Commit("tag", TagName(prefixes[CHOOSE i \in hits : \A j \in hits : i <= j], v))
             ELSE IF fail = "rev_parse" \/ v \notin r.refs THEN None
             ELSE Commit("ref", v)

\* the body of VersionResolver.resolve, before the decorator
resolve_body(r, prefixes, v, fail) ==
    IF fail = "tags" THEN Raised
    ELSE IF v \in r.tags THEN Commit("tag", v)
    ELSE LET hits == {i \in 1..Len(prefixes) : TagName(prefixes[i], v) \in r.tags}
         IN  IF hits # {}
             THEN Commit("tag", TagName(prefixes[CHOOSE i \in hits : \A j \in hits : i <= j], v))
             ELSE IF fail = "heads" THEN Raised
             ELSE IF v \in r.heads THEN Commit("head", v)
             ELSE IF fail = "rev_parse" \/ v \notin r.refs THEN None
             ELSE Commit("ref", v)

\* VersionResolver.resolve as its callers see it
resolve(r, prefixes, v, fail) ==
    handle_git_errors(<<"resolve">>, resolve_body(r, prefixes, v, fail))

(***************************************************************************)
(* Specification SpecResolve: a repository and a version are drawn, the    *)
(* resolver is constructed, resolve is called once.                        *)
(***************************************************************************)

V123 == <<"1.2.3">>

TagUniverse ==
    { V123, <<"v">> \o V123, <<"V">> \o V123, <<"release-">> \o V123,
      <<"rel/">> \o V123, <<"RELEASE-">> \o V123, <<"REL/">> \o V123 }

OriginUrls ==
    { <<>>,                                             \* no remote named origin
      <<"/base/repos/", "zookeeper">>,                  \* a clone of Config's local_path
      <<"https://github.com/apache/", "HBase", ".git">>,
      <<"https://github.com/apache/", "Kafka", ".git">> }

WorkingDirs == { <<"/tmp/tmpdir/", "repo">>, <<"/work/", "zookeeper">> }

Repos ==
    { [tags |-> t, heads |-> {<<"main">>} \cup h, refs |-> f,
       origin_url |-> u, working_dir |-> w] :
        t \in SUBSET TagUniverse, h \in SUBSET {V123}, f \in SUBSET {V123},
        u \in OriginUrls, w \in WorkingDirs }

Versions == { V123, <<"2.0">> }

GitFailures == {"none", "tags", "heads", "rev_parse"}

InitResolve ==
    /\ repo \in Repos
    /\ version \in Versions
    /\ git_fail \in GitFailures
    /\ tag_prefixes = <<>>
    /\ resolve_result = None
    /\ resolve_pc = "new"
    /\ MatchIdle
    /\ ChunksIdle
    /\ AnalyzeIdle
    /\ IssueIdle
    /\ FileChangesIdle
    /\ SearchIdle
    /\ BatchIdle
    /\ ParseIdle

\* VersionResolver.__init__
Construct ==
    /\ resolve_pc = "new"
    /\ tag_prefixes' = detect_tag_prefixes(repo)
    /\ resolve_pc' = "constructed"
    /\ UNCHANGED <<repo, version, git_fail, resolve_result, matchVars, chunkVars, analyzeVars, issueVars, fileChangesVars, searchVars, batchVars, parseVars>>

\* one call of VersionResolver.resolve(version), decorator included
Resolve ==
    /\ resolve_pc = "constructed"
    /\ LET out == resolve(repo, tag_prefixes, version, git_fail)
       IN  /\ resolve_result' = out
           /\ resolve_pc' = IF out = Raised THEN "raised" ELSE "returned"
    /\ UNCHANGED <<repo, version, git_fail, tag_prefixes, matchVars, chunkVars, analyzeVars, issueVars, fileChangesVars, searchVars, batchVars, parseVars>>

NextResolve == Construct \/ Resolve

SpecResolve == InitResolve /\ [][NextResolve]_vars

(***************************************************************************)
(* Claims about VersionResolver                                            *)
(***************************************************************************)

\* the url _detect_tag_prefixes reads
RemoteUrl == IF repo.origin_url # <<>> THEN repo.origin_url ELSE repo.working_dir

\* the i-th prefix of the resolver's list names a tag of the repository
PrefixHit(i) == TagName(tag_prefixes[i], version) \in repo.tags

NoTagHit == version \notin repo.tags /\ \A i \in 1..Len(tag_prefixes) : ~PrefixHit(i)

NoMatch == NoTagHit /\ version \notin repo.heads /\ version \notin repo.refs

HasOnlyV123Tag ==
    /\ version = V123
    /\ (<<"v">> \o V123) \in repo.tags
    /\ V123 \notin repo.tags /\ V123 \notin repo.heads /\ V123 \notin repo.refs

C7_NotFoundNoRaise ==
    /\ resolve_pc # "raised"
    /\ (resolve_pc = "returned" /\ NoMatch) => resolve_result \in {None, FalseV}

C7_Witness ==
    /\ resolve_pc = "returned" /\ NoMatch /\ git_fail = "heads"
    /\ resolve_result = FalseV

\* C8: the lookups are tried in the order exact tag, prefixed tag in the order
\* of the prefix list, branch, generic ref, and the first hit is returned.
C8_LookupOrder ==
    (resolve_pc = "returned" /\ git_fail # "tags") =>
        /\ version \in repo.tags => resolve_result = Commit("tag", version)
        /\ (version \notin repo.tags) =>
              \A i \in 1..Len(tag_prefixes) :
                 (PrefixHit(i) /\ \A j \in 1..(i-1) : ~PrefixHit(j))
                    => resolve_result = Commit("tag", TagName(tag_prefixes[i], version))
        /\ (NoTagHit /\ git_fail # "heads" /\ version \in repo.heads)
              => resolve_result = Commit("head", version)
        /\ (NoTagHit /\ git_fail = "none" /\ version \notin repo.heads
            /\ version \in repo.refs)
              => resolve_result = Commit("ref", version)

\* a version that is a tag name and a branch name, and one with a prefixed tag
\* and a branch of the exact name
C8_Witness ==
    /\ resolve_pc = "returned" /\ git_fail = "none"
    /\ version \notin repo.tags /\ version \in repo.heads
    /\ \E i \in 1..Len(tag_prefixes) : tag_prefixes[i] # "" /\ PrefixHit(i)
    /\ resolve_result.ref = "tag"

(***************************************************************************)
(* GitDiffAnalyzer._match_with_fix_commit                                  *)
(*                                                                         *)
(* diff_data  = [deleted_lines, added_lines : Seq([line_number, content]), *)
(*               old_path, new_path, is_rename]                            *)
(* file_data  = [path, change_type, old_path, chunks]; old_path = NoPath   *)
(*              when the record has no 'old_path' key                      *)
(* chunk      = [old_start, old_count, new_start, new_count, changes]      *)
(* change     = [line_number, type, content]                               *)
(***************************************************************************)

\* commit_data.get('files_changed', {}).get('files', [])
Files(cd) == cd.files

\* lines 385-388: the first file record of the commit whose path is lookup_path
FileChangesOf(cd, lookup_path) ==
    LET hits == {i \in DOMAIN Files(cd) : Files(cd)[i].path = lookup_path}
    IN  IF hits = {} THEN NoResult
        ELSE Files(cd)[CHOOSE i \in hits : \A j \in hits : i <= j]

\* lines 402-403: the changes of all chunks, in order
RECURSIVE AllChanges(_)
AllChanges(chunks) ==
    IF chunks = <<>> THEN <<>> ELSE Head(chunks).changes \o AllChanges(Tail(chunks))

MutIsMatchableDeleteOnly(change) == change.type = "DELETE"

\* line 405
IsMatchable(change) == change.type \in {"DELETE", "MODIFY"}

MutContentMatchesRaw(change, deleted_line) == change.content = deleted_line.content

\* line 409
ContentMatches(change, deleted_line) ==
    Strip(change.content) = Strip(deleted_line.content)

\* lines 407-412: the index of the first deleted line the change matches, 0 if none
FirstMatch(change, deleted_lines_diff) ==
    LET hits == {i \in DOMAIN deleted_lines_diff : ContentMatches(change, deleted_lines_diff[i])}
    IN  IF hits = {} THEN 0 ELSE CHOOSE i \in hits : \A j \in hits : i <= j

MutModifiedLinesFixSide(changes, deleted_lines_diff) ==
    {changes[k].line_number : k \in {k \in DOMAIN changes : IsMatchable(changes[k])}}

MutModifiedLinesAllMatches(changes, deleted_lines_diff) ==
    {deleted_lines_diff[i].line_number :
        i \in {i \in DOMAIN deleted_lines_diff :
                  \E k \in DOMAIN changes :
                     IsMatchable(changes[k]) /\ ContentMatches(changes[k], deleted_lines_diff[i])}}

\* lines 394, 402-412: the set modified_lines after the loops
ModifiedLines(changes, deleted_lines_diff) ==
    {deleted_lines_diff[FirstMatch(changes[k], deleted_lines_diff)].line_number :
        k \in {k \in DOMAIN changes :
                  IsMatchable(changes[k]) /\ FirstMatch(changes[k], deleted_lines_diff) # 0}}

\* lines 395, 414-415: the set unidentified_lines after the loops
UnidentifiedLines(changes, deleted_lines_diff) ==
    {changes[k].line_number :
        k \in {k \in DOMAIN changes :
                  IsMatchable(changes[k]) /\ FirstMatch(changes[k], deleted_lines_diff) = 0}}

MutIsJavaOldPathOnly(fp, diff_data) == EndsWith(fp, <<".java">>)

MutIsJavaAnyFile(fp, diff_data) == TRUE

\* lines 376-378
IsJavaFile(fp, diff_data) ==
    \/ EndsWith(fp, <<".java">>)
    \/ (diff_data.is_rename /\ diff_data.new_path # NoPath
        /\ EndsWith(diff_data.new_path, <<".java">>))

\* GitDiffAnalyzer._match_with_fix_commit(file_path, diff_results, commit_data,
\*                                        ..., fix_file_path)
match_with_fix_commit(fp, dr, cd, ffp) ==
    IF fp \notin DictKeys(dr) THEN NoResult
    ELSE LET diff_data == DictGet(dr, fp)
             lookup_path == IF ffp # NoPath THEN ffp ELSE fp
             file_changes == FileChangesOf(cd, lookup_path)
         IN  IF ~IsJavaFile(fp, diff_data) THEN NoResult
             ELSE IF file_changes = NoResult THEN NoResult
             ELSE LET changes == AllChanges(file_changes.chunks)
                      dl == diff_data.deleted_lines
                  IN  [affected_version |->
                          [filename |-> fp,
                           modified_lines |-> Sorted(ModifiedLines(changes, dl))],
                       fixing_commit |->
                          [filename |-> lookup_path,
                           unidentified_lines |-> Sorted(UnidentifiedLines(changes, dl))],
                       is_rename |-> diff_data.is_rename,
                       old_path |-> IF diff_data.is_rename THEN fp ELSE NoPath,
                       new_path |-> IF diff_data.is_rename THEN diff_data.new_path ELSE NoPath]

(***************************************************************************)
(* Specification SpecMatch: one call of _match_with_fix_commit on a drawn  *)
(* cross-diff entry and a drawn fix commit.                                *)
(***************************************************************************)

MaxDeleted == 2
MaxChanges == 2

SeqsUpTo(S, n) == UNION {[1..k -> S] : k \in 0..n}

RN  == <<"return null;">>
RNl == <<" ", " ", "return null;">>
RNt == <<"return null;", " ">>
XX  == <<"x++;">>

FooJava  == <<"Foo", ".java">>
NewJava  == <<"New", ".java">>
OldTxt   == <<"Old", ".txt">>
NotesTxt == <<"notes", ".txt">>
OtherJava == <<"Other", ".java">>

DeletedPool == {[line_number |-> n, content |-> c] : n \in {10, 12}, c \in {RN, RNt}}

ChangePool ==
    {[line_number |-> n, type |-> "DELETE", content |-> c] : n \in {10, 12}, c \in {RN, RNl, XX}}
    \cup {[line_number |-> 10, type |-> "MODIFY", content |-> c] : c \in {RN, XX}}
    \cup {[line_number |-> 12, type |-> "ADD", content |-> RN]}

\* the chunks of a file whose changes are cs: the first change in a chunk of its own
ChunksOf(cs) ==
    IF Len(cs) <= 1 THEN <<[changes |-> cs]>>
    ELSE <<[changes |-> <<cs[1]>>], [changes |-> Tail(cs)]>>

DecoyFile ==
    [path |-> OtherJava, change_type |-> "MODIFY", old_path |-> NoPath,
     chunks |-> <<[changes |-> <<[line_number |-> 10, type |-> "DELETE", content |-> XX]>>]>>]

\* (file_path, is_rename, new_path, fix_file_path, change_type in the fix commit)
MatchVariants ==
    { [fp |-> FooJava,  is_rename |-> FALSE, new_path |-> NoPath,  ffp |-> NoPath,  ct |-> "MODIFY"],
      [fp |-> OldTxt,   is_rename |-> TRUE,  new_path |-> NewJava, ffp |-> NewJava, ct |-> "RENAME"],
      [fp |-> NotesTxt, is_rename |-> FALSE, new_path |-> NoPath,  ffp |-> NotesTxt, ct |-> "MODIFY"] }

InitMatch ==
    /\ \E v \in MatchVariants, dl \in SeqsUpTo(DeletedPool, MaxDeleted),
          cs \in SeqsUpTo(ChangePool, MaxChanges) :
          /\ file_path = v.fp
          /\ fix_file_path = v.ffp
          /\ diff_results =
                <<[key |-> v.fp,
                   data |-> [deleted_lines |-> dl, added_lines |-> <<>>,
                             old_path |-> v.fp, new_path |-> v.new_path,
                             is_rename |-> v.is_rename]]>>
          /\ commit_data =
                [files |-> <<DecoyFile,
                             [path |-> IF v.ffp # NoPath THEN v.ffp ELSE v.fp,
                              change_type |-> v.ct, old_path |-> NoPath,
                              chunks |-> ChunksOf(cs)]>>]
    /\ match_result = NoResult
    /\ match_pc = "call"
    /\ ResolveIdle
    /\ ChunksIdle
    /\ AnalyzeIdle
    /\ IssueIdle
    /\ FileChangesIdle
    /\ SearchIdle
    /\ BatchIdle
    /\ ParseIdle

\* one call of GitDiffAnalyzer._match_with_fix_commit
Match ==
    /\ match_pc = "call"
    /\ match_result' = match_with_fix_commit(file_path, diff_results, commit_data, fix_file_path)
    /\ match_pc' = "returned"
    /\ UNCHANGED <<file_path, diff_results, commit_data, fix_file_path, resolveVars, chunkVars, analyzeVars, issueVars, fileChangesVars, searchVars, batchVars, parseVars>>

NextMatch == Match

SpecMatch == InitMatch /\ [][NextMatch]_vars

(***************************************************************************)
(* Claims about _match_with_fix_commit                                     *)
(***************************************************************************)

\* the inputs of the call, read from the state
CrossDeleted == DictGet(diff_results, file_path).deleted_lines
LookupPath == IF fix_file_path # NoPath THEN fix_file_path ELSE file_path
FixChanges == AllChanges(FileChangesOf(commit_data, LookupPath).chunks)

Returned == match_pc = "returned" /\ match_result # NoResult
ModifiedOut == Range(match_result.affected_version.modified_lines)
UnidentifiedOut == Range(match_result.fixing_commit.unidentified_lines)

\* the cross-diff deleted lines whose stripped content is that of fix change k
MatchSet(k) ==
    {i \in DOMAIN CrossDeleted : Strip(FixChanges[k].content) = Strip(CrossDeleted[i].content)}

Unmatched(k) == FixChanges[k].type \in {"DELETE", "MODIFY"} /\ MatchSet(k) = {}

\* the end-to-end scenario of the spec: the fix deletes "return null;" at line
\* 10 of Foo.java, the cross-diff deletes "return null;" at line 12
Scenario ==
    /\ file_path = FooJava
    /\ CrossDeleted = <<[line_number |-> 12, content |-> RN]>>
    /\ FixChanges = <<[line_number |-> 10, type |-> "DELETE", content |-> RN]>>

\* C1: a DELETE change of the fix whose stripped content is that of exactly one
\* cross-diff deleted line has that line's number in modified_lines; in the
\* scenario the result is modified_lines = [12], unidentified_lines = [].
C1_UniqueMatchIsModified ==
    Returned =>
        /\ \A k \in DOMAIN FixChanges : \A i \in DOMAIN CrossDeleted :
              (FixChanges[k].type = "DELETE" /\ MatchSet(k) = {i})
                 => CrossDeleted[i].line_number \in ModifiedOut
        /\ Scenario =>
              /\ match_result.affected_version.modified_lines = <<12>>
              /\ match_result.fixing_commit.unidentified_lines = <<>>

C1_Witness ==
    /\ Returned /\ Scenario
    /\ match_result.affected_version.modified_lines = <<12>>

\* C2: a DELETE or MODIFY change of the fix whose stripped content is that of
\* no cross-diff deleted line has its own line number in unidentified_lines
\* and adds nothing to modified_lines: modified_lines holds only numbers of
\* cross-diff deleted lines that some DELETE or MODIFY change matches.
C2_UnmatchedIsUnidentified ==
    Returned =>
        /\ \A k \in DOMAIN FixChanges :
              Unmatched(k) => FixChanges[k].line_number \in UnidentifiedOut
        /\ \A n \in ModifiedOut :
              \E k \in DOMAIN FixChanges : \E i \in MatchSet(k) :
                 /\ FixChanges[k].type \in {"DELETE", "MODIFY"}
                 /\ CrossDeleted[i].line_number = n
        /\ (\A k \in DOMAIN FixChanges : MatchSet(k) = {} \/ FixChanges[k].type = "ADD")
              => ModifiedOut = {}

C2_Witness ==
    /\ Returned
    /\ \E k \in DOMAIN FixChanges :
          /\ FixChanges[k].type = "MODIFY" /\ Unmatched(k)
          /\ FixChanges[k].line_number \in UnidentifiedOut
    /\ CrossDeleted # <<>>
    /\ ModifiedOut = {}

\* C3 as stated: the fix-side line number of an unmatched change is never in
\* modified_lines of the same file result.
C3_Original ==
    Returned =>
        \A k \in DOMAIN FixChanges : Unmatched(k) => FixChanges[k].line_number \notin ModifiedOut

\* C3 amended: the fix-side line number of an unmatched change is in
\* modified_lines only when it is also the cross-diff line number of the first
\* deleted line that another change of the file matches.
C3_UnmatchedNotModified ==
    Returned =>
        \A k \in DOMAIN FixChanges :
           (Unmatched(k) /\ FixChanges[k].line_number \in ModifiedOut) =>
              \E k2 \in DOMAIN FixChanges :
                 /\ k2 # k
                 /\ FixChanges[k2].type \in {"DELETE", "MODIFY"}
                 /\ MatchSet(k2) # {}
                 /\ \E i \in MatchSet(k2) :
                       /\ \A j \in MatchSet(k2) : i <= j
                       /\ CrossDeleted[i].line_number = FixChanges[k].line_number

C3_Witness ==
    /\ Returned
    /\ \E k \in DOMAIN FixChanges :
          /\ Unmatched(k)
          /\ FixChanges[k].line_number \in UnidentifiedOut
          /\ FixChanges[k].line_number \in ModifiedOut

(***************************************************************************)
(* Hunk headers: re.match(r'@@ -(\d+)(?:,(\d+))? \+(\d+)(?:,(\d+))? @@')   *)
(***************************************************************************)

IsDigit(t) == t \in {"0", "1", "2", "3", "4", "5", "6", "7", "8", "9"}

DigitVal(t) ==
    CASE t = "0" -> 0 [] t = "1" -> 1 [] t = "2" -> 2 [] t = "3" -> 3 [] t = "4" -> 4
      [] t = "5" -> 5 [] t = "6" -> 6 [] t = "7" -> 7 [] t = "8" -> 8 [] t = "9" -> 9

\* the token of line at position i, "" past its end
At(line, i) == IF i \in 1..Len(line) THEN line[i] ELSE ""

\* \d+ from position i: the position after the run of digits (i when there is none)
RECURSIVE DigitsEnd(_, _)
DigitsEnd(line, i) == IF IsDigit(At(line, i)) THEN DigitsEnd(line, i + 1) ELSE i

\* int() of the digits at positions i..j-1
RECURSIVE IntOf(_, _, _)
IntOf(line, i, j) ==
    IF j <= i THEN 0 ELSE IntOf(line, i, j - 1) * 10 + DigitVal(line[j - 1])

\* (?:,(\d+))? from position i: [end, present, value]
OptCount(line, i) ==
    LET e == DigitsEnd(line, i + 1)
    IN  IF At(line, i) = "," /\ e > i + 1
        THEN [end |-> e, present |-> TRUE, value |-> IntOf(line, i + 1, e)]
        ELSE [end |-> i, present |-> FALSE, value |-> 0]

NoMatchHeader == [ok |-> FALSE, g1 |-> 0, g2p |-> FALSE, g2 |-> 0, g3 |-> 0, g4p |-> FALSE, g4 |-> 0]

\* the match object: groups 1..4, g2p/g4p telling whether the optional groups took part
HunkMatch(line) ==
    IF ~StartsWith(line, <<"@", "@", " ", "-">>) THEN NoMatchHeader
    ELSE LET e1 == DigitsEnd(line, 5)
             c1 == OptCount(line, e1)
             s3 == c1.end + 2
             e3 == DigitsEnd(line, s3)
             c3 == OptCount(line, e3)
         IN  IF /\ e1 > 5
                /\ At(line, c1.end) = " " /\ At(line, c1.end + 1) = "+"
                /\ e3 > s3
                /\ At(line, c3.end) = " " /\ At(line, c3.end + 1) = "@"
                /\ At(line, c3.end + 2) = "@"
             THEN [ok |-> TRUE, g1 |-> IntOf(line, 5, e1), g2p |-> c1.present, g2 |-> c1.value,
                   g3 |-> IntOf(line, s3, e3), g4p |-> c3.present, g4 |-> c3.value]
             ELSE NoMatchHeader

(***************************************************************************)
(* CommitFinder._parse_diff_chunks                                         *)
(*                                                                         *)
(* chunks holds references: a chunk appended to it and still held in       *)
(* current_chunk is one object.  objs is the heap of chunk objects, chunks *)
(* the list of their indices, current the index held by current_chunk      *)
(* (0 for None).                                                           *)
(***************************************************************************)

MutDefaultCountZero(present, value) == IF present THEN value ELSE 0

\* int(match.group(n)) if match.group(n) else 1
CountOrDefault(present, value) == IF present THEN value ELSE 1

\* lines 362-366
ChangeType(line) ==
    IF StartsWith(line, <<"+">>) THEN "ADD"
    ELSE IF StartsWith(line, <<"-">>) THEN "DELETE"
    ELSE "CONTEXT"

\* the body of the loop, lines 333-374, for one line
ChunkStep(st, line) ==
    IF StartsWith(line, <<"@", "@">>)
    THEN LET chunks1 == IF st.current # 0 THEN Append(st.chunks, st.current) ELSE st.chunks
             m == HunkMatch(line)
         IN  IF m.ok
             THEN [objs |-> Append(st.objs,
                               [old_start |-> m.g1, old_count |-> CountOrDefault(m.g2p, m.g2),
                                new_start |-> m.g3, new_count |-> CountOrDefault(m.g4p, m.g4),
                                changes |-> <<>>]),
                   chunks |-> chunks1, current |-> Len(st.objs) + 1, line_no |-> m.g1]
             ELSE [st EXCEPT !.chunks = chunks1]
    ELSE IF st.current # 0 /\ (StartsWith(line, <<"+">>) \/ StartsWith(line, <<"-">>)
                               \/ StartsWith(line, <<" ">>))
    THEN [st EXCEPT
            !.objs[st.current].changes =
                IF ChangeType(line) # "CONTEXT"
                THEN Append(@, [line_number |-> st.line_no, type |-> ChangeType(line),
                                content |-> Tail(line)])
                ELSE @,
            !.line_no = @ + 1]
    ELSE st

RECURSIVE ChunkLoop(_, _)
ChunkLoop(st, lines) ==
    IF lines = <<>> THEN st ELSE ChunkLoop(ChunkStep(st, Head(lines)), Tail(lines))

\* CommitFinder._parse_diff_chunks(diff_text); lines is diff_text.split('\n')
parse_diff_chunks(lines) ==
    LET st == ChunkLoop([objs |-> <<>>, chunks |-> <<>>, current |-> 0, line_no |-> 0], lines)
        chunks == IF st.current # 0 THEN Append(st.chunks, st.current) ELSE st.chunks
    IN  [i \in DOMAIN chunks |-> st.objs[chunks[i]]]

(***************************************************************************)
(* Specification SpecChunks: one call of _parse_diff_chunks on a drawn     *)
(* patch text.                                                             *)
(***************************************************************************)

MaxLines == 6

\* "@@ -10,2 +12 @@"
H1 == <<"@", "@", " ", "-", "1", "0", ",", "2", " ", "+", "1", "2", " ", "@", "@">>
\* "@@ -7 +7,2 @@ void f()"
H2 == <<"@", "@", " ", "-", "7", " ", "+", "7", ",", "2", " ", "@", "@", " ", "void f()">>
\* "@@@ -1 -1 +1 @@@", the header of a combined diff
HBad == <<"@", "@", "@", " ", "-", "1", " ", "-", "1", " ", "+", "1", " ", "@", "@", "@">>

DelLine == <<"-">> \o RN
AddLine == <<"+">> \o XX
CtxLine == <<" ">> \o RN

PatchLines == {H1, H2, HBad, DelLine, AddLine, CtxLine}

InitChunks ==
    /\ diff_text \in SeqsUpTo(PatchLines, MaxLines)
    /\ parsed_chunks = <<>>
    /\ chunks_pc = "call"
    /\ ResolveIdle
    /\ MatchIdle
    /\ AnalyzeIdle
    /\ IssueIdle
    /\ FileChangesIdle
    /\ SearchIdle
    /\ BatchIdle
    /\ ParseIdle

\* one call of CommitFinder._parse_diff_chunks
ParseChunks ==
    /\ chunks_pc = "call"
    /\ parsed_chunks' = parse_diff_chunks(diff_text)
    /\ chunks_pc' = "returned"
    /\ UNCHANGED <<diff_text, resolveVars, matchVars, analyzeVars, issueVars, fileChangesVars, searchVars, batchVars, parseVars>>

NextChunks == ParseChunks

SpecChunks == InitChunks /\ [][NextChunks]_vars

(***************************************************************************)
(* Claims about _parse_diff_chunks                                         *)
(***************************************************************************)

IsHeaderLine(l) == l \in {H1, H2, HBad}

\* what a header of the patch declares: "-s,oc +t,nc"
Declared(l) ==
    IF l = H1 THEN [s |-> 10, oc |-> 2, t |-> 12, nc |-> 1]
    ELSE [s |-> 7, oc |-> 1, t |-> 7, nc |-> 2]

\* the positions of the header lines in the patch, in order
HeaderPositions == {i \in DOMAIN diff_text : IsHeaderLine(diff_text[i])}
NthHeader(n) ==
    CHOOSE i \in HeaderPositions : Cardinality({j \in HeaderPositions : j < i}) = n - 1

\* the positions of the body of the hunk whose header is at position i
BodyOf(i) ==
    {j \in DOMAIN diff_text :
        j > i /\ \A k \in (i + 1)..j : ~IsHeaderLine(diff_text[k])}

CountIn(i, l) == Cardinality({j \in BodyOf(i) : diff_text[j] = l})

\* the hunk at position i is well formed: its header declares the ranges its
\* body covers
WellFormedHunk(i) ==
    /\ diff_text[i] \in {H1, H2}
    /\ CountIn(i, DelLine) + CountIn(i, CtxLine) = Declared(diff_text[i]).oc
    /\ CountIn(i, AddLine) + CountIn(i, CtxLine) = Declared(diff_text[i]).nc

WellFormedPatch ==
    /\ diff_text # <<>>
    /\ IsHeaderLine(diff_text[1])
    /\ \A i \in HeaderPositions : WellFormedHunk(i)

CountType(chunk, ty) ==
    Cardinality({k \in DOMAIN chunk.changes : chunk.changes[k].type = ty})

\* C9: for a patch of well-formed hunks the parser yields one chunk per hunk,
\* carrying the declared counts, whose DELETE entries number old_count - c and
\* whose ADD entries number new_count - c, c the hunk's context lines.
C9_HunkCounts ==
    (chunks_pc = "returned" /\ WellFormedPatch) =>
        /\ Len(parsed_chunks) = Cardinality(HeaderPositions)
        /\ \A n \in DOMAIN parsed_chunks :
              LET i == NthHeader(n)
                  c == CountIn(i, CtxLine)
                  chunk == parsed_chunks[n]
              IN  /\ chunk.old_count = Declared(diff_text[i]).oc
                  /\ chunk.new_count = Declared(diff_text[i]).nc
                  /\ CountType(chunk, "DELETE") = chunk.old_count - c
                  /\ CountType(chunk, "ADD") = chunk.new_count - c

\* two well-formed hunks, each with a context line
C9_Witness ==
    /\ chunks_pc = "returned" /\ WellFormedPatch
    /\ Len(parsed_chunks) = 2
    /\ \A i \in HeaderPositions : CountIn(i, CtxLine) = 1
    /\ CountType(parsed_chunks[1], "DELETE") = 1
    /\ CountType(parsed_chunks[2], "ADD") = 1

(***************************************************************************)
(* GitDiffAnalyzer.parse_diff_output                                       *)
(***************************************************************************)

\* the number of characters a token stands for
TokLen(t) ==
    CASE t = "diff --git"   -> 10
      [] t = "rename from " -> 12
      [] t = "rename to "   -> 10
      [] t = "copy from "   -> 10
      [] t = "copy to "     -> 8
      [] t = "a/"           -> 2
      [] t = "b/"           -> 2
      [] t = "/dev/null"    -> 9
      [] OTHER              -> 1

\* line[n:]
RECURSIVE DropChars(_, _)
DropChars(line, n) ==
    IF n <= 0 \/ line = <<>> THEN line ELSE DropChars(Tail(line), n - TokLen(Head(line)))

Minus3 == <<"-", "-", "-">>
Plus3  == <<"+", "+", "+">>

\* lines 142-151: the locals before the loop; current_file = NoPath is None
ParseStart ==
    [results |-> <<>>, current_file |-> NoPath, current_old_file |-> NoPath,
     current_new_file |-> NoPath, current_old_start |-> 0, current_new_start |-> 0,
     deleted_lines |-> <<>>, added_lines |-> <<>>, is_rename |-> FALSE, line_offset |-> 0]

MutSaveFileDeletionsOnly(st) ==
    IF st.current_file # NoPath /\ st.deleted_lines # <<>>
    THEN DictPut(st.results, st.current_file,
                 [deleted_lines |-> st.deleted_lines, added_lines |-> st.added_lines,
                  old_path |-> st.current_old_file, new_path |-> st.current_new_file,
                  is_rename |-> st.is_rename])
    ELSE st.results

\* lines 157-164 and 224-231: results after saving the current file
SaveFile(st) ==
    IF st.current_file # NoPath /\ (st.deleted_lines # <<>> \/ st.is_rename)
    THEN DictPut(st.results, st.current_file,
                 [deleted_lines |-> st.deleted_lines, added_lines |-> st.added_lines,
                  old_path |-> st.current_old_file, new_path |-> st.current_new_file,
                  is_rename |-> st.is_rename])
    ELSE st.results

MutOffsetAfterAdded(line_offset) == line_offset + 1

\* lines 211-217: the branch of an added line leaves line_offset as it is
OffsetAfterAdded(line_offset) == line_offset

\* the body of the loop, lines 153-221, for one line
ParseStep(st, line) ==
    IF StartsWith(line, <<"diff --git">>)
    THEN [st EXCEPT !.results = SaveFile(st),
                    !.current_file = NoPath, !.current_old_file = NoPath,
                    !.current_new_file = NoPath, !.deleted_lines = <<>>,
                    !.added_lines = <<>>, !.is_rename = FALSE]
    ELSE IF StartsWith(line, <<"rename from ">>)
    THEN [st EXCEPT !.current_old_file = DropChars(line, 12), !.is_rename = TRUE]
    ELSE IF StartsWith(line, <<"rename to ">>)
    THEN [st EXCEPT !.current_new_file = DropChars(line, 10),
                    !.current_file = st.current_old_file]
    ELSE IF StartsWith(line, Minus3 \o <<" ", "a/">>)
    THEN IF ~st.is_rename
         THEN [st EXCEPT !.current_file = DropChars(line, 6),
                         !.current_old_file = DropChars(line, 6)]
         ELSE st
    ELSE IF StartsWith(line, Minus3 \o <<" ", "/dev/null">>)
    THEN IF ~st.is_rename THEN [st EXCEPT !.current_file = NoPath] ELSE st
    ELSE IF StartsWith(line, Plus3 \o <<" ", "b/">>)
    THEN IF ~st.is_rename /\ st.current_file = NoPath
         THEN [st EXCEPT !.current_file = DropChars(line, 6),
                         !.current_new_file = DropChars(line, 6)]
         ELSE st
    ELSE IF StartsWith(line, <<"@", "@">>)
    THEN LET m == HunkMatch(line)
         IN  IF m.ok
             THEN [st EXCEPT !.current_old_start = m.g1, !.current_new_start = m.g3,
                             !.line_offset = 0]
             ELSE [st EXCEPT !.line_offset = 0]
    ELSE IF StartsWith(line, <<"-">>) /\ ~StartsWith(line, Minus3)
    THEN [st EXCEPT
            !.deleted_lines =
                IF st.current_file # NoPath
                THEN Append(@, [line_number |-> st.current_old_start + st.line_offset,
                                content |-> Tail(line)])
                ELSE @,
            !.line_offset = @ + 1]
    ELSE IF StartsWith(line, <<"+">>) /\ ~StartsWith(line, Plus3)
    THEN [st EXCEPT
            !.added_lines =
                IF st.current_file # NoPath
                THEN Append(@, [line_number |-> st.current_new_start + Len(st.added_lines),
                                content |-> Tail(line)])
                ELSE @,
            !.line_offset = OffsetAfterAdded(@)]
    ELSE IF StartsWith(line, <<" ">>)
    THEN [st EXCEPT !.line_offset = @ + 1]
    ELSE st

RECURSIVE ParseLoop(_, _)
ParseLoop(st, lines) ==
    IF lines = <<>> THEN st ELSE ParseLoop(ParseStep(st, Head(lines)), Tail(lines))

\* GitDiffAnalyzer.parse_diff_output(diff_output); lines is diff_output.split('\n')
parse_diff_output(lines) == SaveFile(ParseLoop(ParseStart, lines))

(***************************************************************************)
(* GitDiffAnalyzer.analyze_fix_commit                                      *)
(*                                                                         *)
(* The result's url and checkout_command strings are left out; 'error' is  *)
(* NoError when the result has no such key; diff_command is modelled by    *)
(* the paths it names.                                                     *)
(***************************************************************************)

NoError == <<>>

MutFixFilesWithAdd(cd) ==
    LET RECURSIVE Build(_, _)
        Build(acc, fs) ==
            IF fs = <<>> THEN acc
            ELSE Build(DictPut(acc, Head(fs).path, Head(fs)), Tail(fs))
    IN  Build(<<>>, Files(cd))

\* lines 286-290: fix_files, keyed by path
FixFiles(cd) ==
    LET RECURSIVE Build(_, _)
        Build(acc, fs) ==
            IF fs = <<>> THEN acc
            ELSE Build(IF Head(fs).change_type \in {"MODIFY", "DELETE", "RENAME"}
                       THEN DictPut(acc, Head(fs).path, Head(fs)) ELSE acc,
                       Tail(fs))
    IN  Build(<<>>, Files(cd))

\* lines 296-317: one iteration of the loop over fix_files
RenameStep(st, item, cd) ==
    LET fix_file_data == item.data
        ffp == item.key
        old_path == fix_file_data.old_path
    IN  IF /\ fix_file_data.change_type = "RENAME"
           /\ old_path # NoPath
           /\ old_path \in DictKeys(st.all_diff_results)
        THEN LET diff_data == [DictGet(st.all_diff_results, old_path) EXCEPT
                                  !.is_rename = TRUE, !.new_path = ffp, !.old_path = old_path]
                 file_result == match_with_fix_commit(
                                    old_path, <<[key |-> old_path, data |-> diff_data]>>, cd, ffp)
             IN  [all_diff_results |-> DictPut(st.all_diff_results, old_path, diff_data),
                  processed_files |-> st.processed_files \cup {old_path},
                  changes |->
                     IF file_result # NoResult
                     THEN Append(st.changes,
                                 [affected_version |-> file_result.affected_version,
                                  fixing_commit |-> file_result.fixing_commit,
                                  is_rename |-> TRUE, old_path |-> old_path, new_path |-> ffp,
                                  diff_command |-> <<old_path, ffp>>])
                     ELSE st.changes]
        ELSE st

RECURSIVE RenameLoop(_, _, _)
RenameLoop(st, items, cd) ==
    IF items = <<>> THEN st ELSE RenameLoop(RenameStep(st, Head(items), cd), Tail(items), cd)

\* lines 331-335: the first fix file that is the rename's new path or names
\* file_path as its old path; 0 when there is none
RenamedFixFile(fix_files, fp, new_path) ==
    LET hits == {i \in DOMAIN fix_files :
                    \/ fix_files[i].key = new_path
                    \/ (fix_files[i].data.old_path # NoPath /\ fix_files[i].data.old_path = fp)}
    IN  IF hits = {} THEN 0 ELSE CHOOSE i \in hits : \A j \in hits : i <= j

\* lines 320-359: one iteration of the loop over all_diff_results
DiffStep(st, item, fix_files, cd) ==
    LET fp == item.key
        diff_data == item.data
        r == RenamedFixFile(fix_files, fp, diff_data.new_path)
        found == IF diff_data.is_rename THEN r # 0 ELSE fp \in DictKeys(fix_files)
        ffp == IF diff_data.is_rename THEN fix_files[r].key ELSE fp
    IN  IF fp \in st.processed_files \/ ~found THEN st
        ELSE LET file_result == match_with_fix_commit(
                                    fp, <<[key |-> fp, data |-> diff_data]>>, cd, ffp)
             IN  IF file_result = NoResult THEN st
                 ELSE [st EXCEPT !.changes =
                          Append(@,
                                 IF diff_data.is_rename
                                 THEN [affected_version |-> file_result.affected_version,
                                       fixing_commit |-> file_result.fixing_commit,
                                       is_rename |-> TRUE, old_path |-> fp,
                                       new_path |-> diff_data.new_path,
                                       diff_command |-> <<fp, diff_data.new_path>>]
                                 ELSE [affected_version |-> file_result.affected_version,
                                       fixing_commit |-> file_result.fixing_commit,
                                       is_rename |-> FALSE, old_path |-> NoPath,
                                       new_path |-> NoPath,
                                       diff_command |-> <<fp>>])]

RECURSIVE DiffLoop(_, _, _, _)
DiffLoop(st, items, fix_files, cd) ==
    IF items = <<>> THEN st
    ELSE DiffLoop(DiffStep(st, Head(items), fix_files, cd), Tail(items), fix_files, cd)

\* lines 262-359: result['changes'] when git diff returned the lines of diff_out
Changes(cd, lines) ==
    LET all_diff_results == parse_diff_output(lines)
        fix_files == FixFiles(cd)
        st1 == RenameLoop([all_diff_results |-> all_diff_results, processed_files |-> {},
                           changes |-> <<>>], fix_files, cd)
        st2 == DiffLoop(st1, st1.all_diff_results, fix_files, cd)
    IN  st2.changes

MutAnalyzeNoErrorField(r, prefixes, fail, affected_version, cd, diff_out) ==
    LET affected_version_sha == resolve(r, prefixes, affected_version, fail)
    IN  IF Falsy(affected_version_sha) \/ diff_out.raised
        THEN [error |-> NoError, affected_version |-> affected_version,
              affected_version_sha |-> affected_version_sha,
              fixing_commit_sha |-> cd.full_sha, changes |-> <<>>]
        ELSE [error |-> NoError, affected_version |-> affected_version,
              affected_version_sha |-> affected_version_sha,
              fixing_commit_sha |-> cd.full_sha, changes |-> Changes(cd, diff_out.lines)]

\* GitDiffAnalyzer.analyze_fix_commit(fix_commit_sha, affected_version, commit_data);
\* fix_commit_sha is commit_data.full_sha at the call site (lines 466-476);
\* diff_out is what self.repo.git.diff does: [raised, lines]
analyze_fix_commit(r, prefixes, fail, affected_version, cd, diff_out) ==
    LET affected_version_sha == resolve(r, prefixes, affected_version, fail)
    IN  IF Falsy(affected_version_sha)
        THEN [error |-> <<"Could not resolve version ">> \o affected_version \o <<" to SHA">>,
              affected_version |-> affected_version,
              affected_version_sha |-> None,
              fixing_commit_sha |-> cd.full_sha, changes |-> <<>>]
        ELSE IF diff_out.raised
        THEN [error |-> NoError, affected_version |-> affected_version,
              affected_version_sha |-> affected_version_sha,
              fixing_commit_sha |-> cd.full_sha, changes |-> <<>>]
        ELSE [error |-> NoError, affected_version |-> affected_version,
              affected_version_sha |-> affected_version_sha,
              fixing_commit_sha |-> cd.full_sha, changes |-> Changes(cd, diff_out.lines)]

(***************************************************************************)
(* Specification SpecAnalyze: one call of analyze_fix_commit.  The text of *)
(* the cross-diff is rendered from file sections as git prints them; the   *)
(* chunks of the fix commit's files are what _parse_diff_chunks makes of   *)
(* the fix commit's patch.                                                 *)
(***************************************************************************)

MaxSections == 2
MaxFiles == 2

\* "@@ -12 +12 @@"
H12 == <<"@", "@", " ", "-", "1", "2", " ", "+", "1", "2", " ", "@", "@">>
\* "@@ -12,0 +13 @@"
H12Add == <<"@", "@", " ", "-", "1", "2", ",", "0", " ", "+", "1", "3", " ", "@", "@">>
\* "@@ -0,0 +1 @@"
H0 == <<"@", "@", " ", "-", "0", ",", "0", " ", "+", "1", " ", "@", "@">>

IndexLine == <<"index 3f2a..9c1b 100644">>

\* the hunks of a section: "del" deletes "return null;" at line 12 and adds a
\* line, "del7" deletes "x++;" at line 7 and adds two lines, "add" only adds
\* a line, "none" is a section without hunks
HunkText(body) ==
    IF body = "del" THEN <<H12, DelLine, AddLine>>
    ELSE IF body = "add" THEN <<H12Add, AddLine>>
    ELSE IF body = "del7" THEN <<H2, <<"-">> \o XX, AddLine, AddLine>>
    ELSE <<>>

OldNewLines(sec) ==
    <<IndexLine, Minus3 \o <<" ", "a/">> \o sec.old, Plus3 \o <<" ", "b/">> \o sec.new>>

\* the lines git diff prints for one file section
RenderSection(sec) ==
    LET head == <<"diff --git", " ", "a/">>
                \o (IF sec.kind = "add" THEN sec.new ELSE sec.old)
                \o <<" ", "b/">> \o sec.new
    IN  IF sec.kind = "modify" THEN <<head>> \o OldNewLines(sec) \o HunkText(sec.body)
        ELSE IF sec.kind = "rename"
        THEN <<head, <<"similarity index 95%">>,
               <<"rename from ">> \o sec.old, <<"rename to ">> \o sec.new>>
             \o (IF sec.body = "none" THEN <<>> ELSE OldNewLines(sec) \o HunkText(sec.body))
        ELSE IF sec.kind = "copy"
        THEN <<head, <<"similarity index 95%">>,
               <<"copy from ">> \o sec.old, <<"copy to ">> \o sec.new>>
             \o (IF sec.body = "none" THEN <<>> ELSE OldNewLines(sec) \o HunkText(sec.body))
        ELSE <<head, <<"new file mode 100644">>, IndexLine,
               Minus3 \o <<" ", "/dev/null">>, Plus3 \o <<" ", "b/">> \o sec.new,
               H0, AddLine>>

RECURSIVE RenderDiff(_)
RenderDiff(secs) ==
    IF secs = <<>> THEN <<>> ELSE RenderSection(Head(secs)) \o RenderDiff(Tail(secs))

SectionPool ==
    { [kind |-> "modify", old |-> FooJava,  new |-> FooJava,   body |-> "del"],
      [kind |-> "modify", old |-> NotesTxt, new |-> NotesTxt,  body |-> "del"],
      [kind |-> "modify", old |-> NewJava,  new |-> NewJava,   body |-> "del"],
      [kind |-> "rename", old |-> OldTxt,   new |-> NewJava,   body |-> "none"],
      [kind |-> "rename", old |-> OldTxt,   new |-> NewJava,   body |-> "del"],
      [kind |-> "rename", old |-> OldTxt,   new |-> NotesTxt,  body |-> "del"],
      [kind |-> "add",    old |-> NoPath,   new |-> NewJava,   body |-> "add"],
      [kind |-> "copy",   old |-> OldTxt,   new |-> OtherJava, body |-> "del"] }

\* git prints the sections in the order of their paths
PathRank(path) ==
    CASE path = FooJava   -> 1
      [] path = NewJava   -> 2
      [] path = OldTxt    -> 3
      [] path = OtherJava -> 4
      [] path = NotesTxt  -> 5

\* the section lists git can print: ordered by path, one section per new
\* path, at most one rename of a file
SectionLists ==
    {secs \in SeqsUpTo(SectionPool, MaxSections) :
        /\ \A i, j \in DOMAIN secs : i < j => PathRank(secs[i].new) < PathRank(secs[j].new)
        /\ \A i, j \in DOMAIN secs :
              (i # j /\ secs[i].kind = "rename" /\ secs[j].kind = "rename")
                 => secs[i].old # secs[j].old}

\* the patch of a file of the fix commit: "@@ -10,2 +12 @@", two deletions, one addition
FixPatch == <<H1, DelLine, <<"-">> \o XX, AddLine>>

FileRecord(path, ct, old) ==
    [path |-> path, change_type |-> ct, old_path |-> old,
     chunks |-> parse_diff_chunks(FixPatch)]

\* path, change_type and old_path of the records a file list is drawn from
FileKinds ==
    { <<FooJava,  "MODIFY", NoPath>>, <<NotesTxt, "MODIFY", NoPath>>,
      <<NewJava,  "ADD",    NoPath>>, <<FooJava,  "DELETE", NoPath>>,
      <<NewJava,  "RENAME", NoPath>>, <<NewJava,  "RENAME", OldTxt>>,
      <<NotesTxt, "RENAME", NoPath>>, <<NotesTxt, "RENAME", OldTxt>> }

FilePool == {FileRecord(f[1], f[2], f[3]) : f \in FileKinds}

\* the file lists of a commit: one record per path, one rename per file
FileLists ==
    {fs \in SeqsUpTo(FilePool, MaxFiles) :
        \A i, j \in DOMAIN fs :
           i # j => /\ fs[i].path # fs[j].path
                    /\ ~(fs[i].change_type = "RENAME" /\ fs[j].change_type = "RENAME")}

V10 == <<"1.0">>

\* the clone the analyzer works on: tag v1.0, branch main
AnalyzerRepo ==
    [tags |-> {<<"v">> \o V10}, heads |-> {<<"main">>}, refs |-> {},
     origin_url |-> <<"/base/repos/", "kafka">>, working_dir |-> <<"/tmp/tmpdir/", "repo">>]

FixSha == <<"f00d">>

InitAnalyze ==
    /\ repo = AnalyzerRepo
    /\ tag_prefixes = detect_tag_prefixes(repo)
    /\ version \in {V10, <<"9.9">>}
    /\ git_fail \in {"none", "tags"}
    /\ resolve_result = None
    /\ resolve_pc = "idle"
    /\ \E fs \in FileLists : commit_data = [full_sha |-> FixSha, files |-> fs]
    /\ \E secs \in SectionLists, raised \in BOOLEAN :
          cross_diff = [raised |-> raised, lines |-> IF raised THEN <<>> ELSE RenderDiff(secs)]
    /\ file_path = NoPath /\ diff_results = <<>> /\ fix_file_path = NoPath
    /\ match_result = NoResult /\ match_pc = "idle"
    /\ analysis_result = NoResult
    /\ analyze_pc = "call"
    /\ ChunksIdle
    /\ IssueIdle
    /\ FileChangesIdle
    /\ SearchIdle
    /\ BatchIdle
    /\ ParseIdle

\* one call of GitDiffAnalyzer.analyze_fix_commit
Analyze ==
    /\ analyze_pc = "call"
    /\ analysis_result' =
          analyze_fix_commit(repo, tag_prefixes, git_fail, version, commit_data, cross_diff)
    /\ analyze_pc' = "returned"
    /\ UNCHANGED <<resolveVars, matchVars, chunkVars, cross_diff, issueVars, fileChangesVars, searchVars, batchVars, parseVars>>

NextAnalyze == Analyze

SpecAnalyze == InitAnalyze /\ [][NextAnalyze]_vars

(***************************************************************************)
(* Claims about analyze_fix_commit                                         *)
(***************************************************************************)

\* the call returned a result computed from the cross-diff
Analyzed ==
    analyze_pc = "returned" /\ analysis_result.error = NoError /\ ~cross_diff.raised

ChangesOut == analysis_result.changes

\* the text of the cross-diff reports the rename old -> new
DiffReportsRename(old, new) ==
    \E i \in DOMAIN cross_diff.lines :
       /\ cross_diff.lines[i] = <<"rename from ">> \o old
       /\ i + 1 \in DOMAIN cross_diff.lines
       /\ cross_diff.lines[i + 1] = <<"rename to ">> \o new

\* the parsed cross-diff holds the rename old -> new under the key old
ParsedHoldsRename(old, new) ==
    LET parsed == parse_diff_output(cross_diff.lines)
    IN  /\ old \in DictKeys(parsed)
        /\ DictGet(parsed, old).is_rename
        /\ DictGet(parsed, old).new_path = new

Paths == {FooJava, NewJava, OldTxt, OtherJava, NotesTxt}

\* the fix commit reports the rename old -> new: a RENAME record whose path is
\* new and whose old_path, when the record carries one, is old
FixReportsRename(old, new) ==
    \E k \in DOMAIN commit_data.files :
       /\ commit_data.files[k].change_type = "RENAME"
       /\ commit_data.files[k].path = new
       /\ commit_data.files[k].old_path \in {NoPath, old}

RenameEntry(old, new) ==
    \E e \in DOMAIN ChangesOut :
       /\ ChangesOut[e].affected_version.filename = old
       /\ ChangesOut[e].fixing_commit.filename = new
       /\ ChangesOut[e].is_rename
       /\ ChangesOut[e].old_path = old
       /\ ChangesOut[e].new_path = new

C10_NoEntryForAddedFile ==
    analyze_pc = "returned" =>
        \A k \in DOMAIN commit_data.files :
           commit_data.files[k].change_type = "ADD" =>
              \A e \in DOMAIN ChangesOut :
                 ChangesOut[e].fixing_commit.filename # commit_data.files[k].path

\* the fix adds New.java, the cross-diff has deletions in New.java, and the
\* result has an entry for another file only
C10_Witness ==
    /\ Analyzed
    /\ \E k \in DOMAIN commit_data.files :
          commit_data.files[k].change_type = "ADD" /\ commit_data.files[k].path = NewJava
    /\ NewJava \in DictKeys(parse_diff_output(cross_diff.lines))
    /\ Len(ChangesOut) = 1
    /\ ChangesOut[1].fixing_commit.filename = FooJava

(***************************************************************************)
(* process_single_issue                                                    *)
(***************************************************************************)

TrueV == [ref |-> "True", name |-> <<>>]

\* git.Repo.clone_from(str(repo.working_dir), temp_repo_path): the clone has the
\* tags and objects of its source, one local branch (the source's current
\* branch), the source's branches as remote-tracking refs, and the source's
\* path as the url of origin
clone_from(src) ==
    [tags |-> src.tags, heads |-> {src.active_branch},
     refs |-> {<<"origin/">> \o b : b \in src.heads},
     origin_url |-> src.working_dir, working_dir |-> <<"/tmp/tmpdir/", "repo">>,
     objects |-> src.objects, active_branch |-> src.active_branch, head |-> src.head]

MutCheckoutAlwaysTrue(r, commit_sha) ==
    [ret |-> TrueV, repo |-> [r EXCEPT !.head = commit_sha, !.active_branch = <<>>]]

\* GitDiffAnalyzer.checkout_commit, decorator included: git checkout raises for
\* a commit the repository does not have
checkout_commit(r, commit_sha) ==
    LET outcome == IF commit_sha \in r.objects THEN TrueV ELSE Raised
    IN  [ret  |-> handle_git_errors(<<"checkout_commit">>, outcome),
         repo |-> IF outcome = TrueV
                  THEN [r EXCEPT !.head = commit_sha, !.active_branch = <<>>]
                  ELSE r]

\* line 452: entering the with block makes the temporary directory d
TemporaryDirectory(dirs, d) == dirs \cup {d}

MutDirectoryKept(dirs, d) == dirs

\* leaving the with block of line 452, normally or with an exception, removes
\* the temporary directory d and the clone in it
TemporaryDirectoryExit(dirs, d) == dirs \ {d}

MutAnalyzerOnShared == "shared"

\* line 462: the repository the analyzer is made for, and so the one
\* checkout_commit works on: "temp" is temp_repo, "shared" is repo
analyzer_repo == "temp"

(***************************************************************************)
(* Specification SpecIssue: one call of process_single_issue, stepped      *)
(* through its loops.                                                      *)
(***************************************************************************)

MaxVersions == 2
MaxCommits == 2

BeefSha == <<"beef">>

\* the repository at Config's local_path for ZooKeeper
BaseRepos ==
    { [tags |-> {<<"release-">> \o V10}, heads |-> {<<"main">>, <<"branch-3">>},
       refs |-> {}, origin_url |-> <<"https://github.com/apache/", "zookeeper", ".git">>,
       working_dir |-> <<"/base/repos/", "zookeeper">>,
       objects |-> o, active_branch |-> <<"main">>, head |-> <<"c0de">>] :
        o \in {{FixSha, BeefSha}, {FixSha}} }

AffectsPool == {V10, <<"9.9">>, <<"branch-3">>}

CommitPool ==
    { [full_sha |-> FixSha,  files |-> <<FileRecord(FooJava, "MODIFY", NoPath)>>],
      [full_sha |-> BeefSha, files |-> <<FileRecord(NewJava, "ADD", NoPath)>>] }

CommitLists ==
    {cs \in SeqsUpTo(CommitPool, MaxCommits) :
        \A i, j \in DOMAIN cs : i # j => cs[i].full_sha # cs[j].full_sha}

\* what git diff <affected sha> <fix sha> does in the clone
IssueDiffs ==
    { [raised |-> TRUE, lines |-> <<>>],
      [raised |-> FALSE,
       lines |-> RenderDiff(<<[kind |-> "modify", old |-> FooJava, new |-> FooJava,
                               body |-> "del"]>>)] }

InitIssue ==
    /\ base_repo \in BaseRepos
    /\ \E a \in SeqsUpTo(AffectsPool, MaxVersions), cs \in CommitLists :
          issue_data = [affects |-> a, commits |-> cs]
    /\ temp_repo = NoRepo
    /\ temp_dirs = {}
    /\ vi = 0
    /\ ci = 0
    /\ results = <<>>
    /\ unit_log = <<>>
    /\ issue_return = NoResult
    /\ issue_pc = "start"
    /\ ResolveIdle
    /\ MatchIdle
    /\ ChunksIdle
    /\ AnalyzeIdle
    /\ FileChangesIdle
    /\ SearchIdle
    /\ BatchIdle
    /\ ParseIdle

\* lines 441-447: no affected versions, return None
IssueStart ==
    /\ issue_pc = "start"
    /\ IF issue_data.affects = <<>>
       THEN /\ issue_return' = None
            /\ issue_pc' = "returned"
            /\ vi' = vi
       ELSE /\ issue_return' = issue_return
            /\ issue_pc' = "clone"
            /\ vi' = 1
    /\ UNCHANGED <<base_repo, issue_data, temp_repo, temp_dirs, ci, results, unit_log>>
    /\ UNCHANGED <<resolveVars, matchVars, chunkVars, analyzeVars, fileChangesVars, searchVars, batchVars, parseVars>>

\* lines 452-462: the temporary directory is made and the repository cloned
\* into it; a failing clone leaves the with block, which removes the
\* directory, and the exception leaves process_single_issue
CloneVersion ==
    /\ issue_pc = "clone"
    /\ \E clone_ok \in BOOLEAN :
          IF clone_ok
          THEN /\ temp_dirs' = TemporaryDirectory(temp_dirs, vi)
               /\ temp_repo' = clone_from(base_repo)
               /\ ci' = 1
               /\ issue_pc' = "commit"
               /\ issue_return' = issue_return
          ELSE /\ temp_dirs' = TemporaryDirectoryExit(TemporaryDirectory(temp_dirs, vi), vi)
               /\ temp_repo' = NoRepo
               /\ ci' = ci
               /\ issue_pc' = "raised"
               /\ issue_return' = Raised
    /\ UNCHANGED <<base_repo, issue_data, vi, results, unit_log>>
    /\ UNCHANGED <<resolveVars, matchVars, chunkVars, analyzeVars, fileChangesVars, searchVars, batchVars, parseVars>>

\* lines 464-478: one iteration of the loop over the fix commits; the
\* analyzer's resolver was made for temp_repo when the analyzer was (line 462)
ProcessCommit ==
    /\ issue_pc = "commit"
    /\ ci <= Len(issue_data.commits)
    /\ LET commit == issue_data.commits[ci]
           co == checkout_commit(IF analyzer_repo = "temp" THEN temp_repo ELSE base_repo,
                                 commit.full_sha)
       IN  /\ temp_repo' = IF analyzer_repo = "temp" THEN co.repo ELSE temp_repo
           /\ base_repo' = IF analyzer_repo = "temp" THEN base_repo ELSE co.repo
           /\ IF co.ret = TrueV
              THEN \E fail \in {"none", "tags"}, diff_out \in IssueDiffs :
                      LET r == analyze_fix_commit(co.repo, detect_tag_prefixes(co.repo),
                                                  fail, issue_data.affects[vi],
                                                  commit, diff_out)
                      IN  /\ results' = Append(results, r)
                          /\ unit_log' = Append(unit_log,
                                [version |-> vi, commit |-> ci, checked_out |-> TRUE,
                                 git_fail |-> fail,
                                 diff_raised |-> diff_out.raised
                                                 /\ r.affected_version_sha # None])
              ELSE /\ results' = results
                   /\ unit_log' = Append(unit_log,
                         [version |-> vi, commit |-> ci, checked_out |-> FALSE,
                          git_fail |-> "none", diff_raised |-> FALSE])
    /\ ci' = ci + 1
    /\ UNCHANGED <<issue_data, temp_dirs, vi, issue_return, issue_pc>>
    /\ UNCHANGED <<resolveVars, matchVars, chunkVars, analyzeVars, fileChangesVars, searchVars, batchVars, parseVars>>

\* the end of the with block (the temporary directory is removed), then the
\* next affected version or lines 480-483
EndVersion ==
    /\ issue_pc = "commit"
    /\ ci > Len(issue_data.commits)
    /\ temp_dirs' = TemporaryDirectoryExit(temp_dirs, vi)
    /\ temp_repo' = NoRepo
    /\ IF vi < Len(issue_data.affects)
       THEN /\ vi' = vi + 1
            /\ issue_pc' = "clone"
            /\ issue_return' = issue_return
       ELSE /\ vi' = vi
            /\ issue_pc' = "returned"
            /\ issue_return' = [analysis_results |-> results]
    /\ UNCHANGED <<base_repo, issue_data, ci, results, unit_log>>
    /\ UNCHANGED <<resolveVars, matchVars, chunkVars, analyzeVars, fileChangesVars, searchVars, batchVars, parseVars>>

NextIssue == IssueStart \/ CloneVersion \/ ProcessCommit \/ EndVersion

SpecIssue == InitIssue /\ [][NextIssue]_vars

(***************************************************************************)
(* Claims about process_single_issue                                       *)
(***************************************************************************)

\* no rule of resolve finds the version in a clone of the repository
Unresolvable(v) ==
    LET c == clone_from(base_repo)
    IN  resolve_body(c, detect_tag_prefixes(c), v, "none") = None

ResultsFor(v, sha) ==
    {k \in DOMAIN results :
        results[k].affected_version = v /\ results[k].fixing_commit_sha = sha}

IsErrorResult(r) ==
    r.error # NoError /\ r.affected_version_sha = None /\ r.changes = <<>>

\* C5: every result recorded for a version that cannot be resolved has a
\* non-empty error, affected_version_sha None and no changes; and when
\* process_single_issue returns, every affected version has a result of its
\* own for every fix commit that could be checked out: for a version that
\* resolves, an error result or a result with the commit the version names.
C5_UnresolvedVersionIsolated ==
    /\ \A k \in DOMAIN results :
          (Unresolvable(results[k].affected_version)
             \/ Falsy(results[k].affected_version_sha)) => IsErrorResult(results[k])
    /\ (issue_pc = "returned" /\ issue_data.affects # <<>>) =>
          /\ issue_return = [analysis_results |-> results]
          /\ \A i \in DOMAIN issue_data.affects, j \in DOMAIN issue_data.commits :
                issue_data.commits[j].full_sha \in base_repo.objects =>
                   \E k \in ResultsFor(issue_data.affects[i], issue_data.commits[j].full_sha) :
                      \/ IsErrorResult(results[k])
                      \/ /\ ~Unresolvable(issue_data.affects[i])
                         /\ results[k].error = NoError
                         /\ results[k].affected_version_sha
                               = Commit("tag", <<"release-">> \o issue_data.affects[i])

\* 9.9 does not resolve and comes first; 1.0 is processed after it and gets a
\* result with changes
C5_Witness ==
    /\ issue_pc = "returned"
    /\ issue_data.affects = <<<<"9.9">>, V10>>
    /\ Len(results) = 2
    /\ IsErrorResult(results[1]) /\ results[1].affected_version = <<"9.9">>
    /\ results[2].affected_version = V10
    /\ results[2].error = NoError
    /\ results[2].changes # <<>>

(***************************************************************************)
(* CommitFinder._get_commit_file_changes                                   *)
(*                                                                         *)
(* A commit is [hexsha, parents, message, diff_items, git_fail].           *)
(* diff_items is what the diff call of lines 252-257 returns: a sequence   *)
(* of git.Diff objects [a_path, b_path, new_file, deleted_file,            *)
(* renamed_file, diff, insertions, deletions], where diff is the patch     *)
(* text split in lines and insertions, deletions are what                  *)
(* stats.files.get(file_path, ...) gives for the item's file_path.         *)
(* git_fail names the call that raises: "none", "stats" or "diff".         *)
(***************************************************************************)

\* CommitFinder._get_change_type
get_change_type(diff_item) ==
    IF diff_item.new_file THEN "ADD"
    ELSE IF diff_item.deleted_file THEN "DELETE"
    ELSE IF diff_item.renamed_file THEN "RENAME"
    ELSE "MODIFY"

\* lines 261-281: the file_info of one diff item; NoResult when the item is skipped
file_info(diff_item) ==
    LET fp == IF diff_item.b_path # NoPath THEN diff_item.b_path ELSE diff_item.a_path
    IN  IF fp = NoPath THEN NoResult
        ELSE [path |-> fp,
              change_type |-> get_change_type(diff_item),
              insertions |-> diff_item.insertions,
              deletions |-> diff_item.deletions,
              lines_changed |-> diff_item.insertions + diff_item.deletions,
              chunks |-> IF diff_item.diff # <<>> THEN parse_diff_chunks(diff_item.diff)
                         ELSE <<>>]

RECURSIVE FileInfos(_)
FileInfos(items) ==
    IF items = <<>> THEN <<>>
    ELSE LET fi == file_info(Head(items))
         IN  (IF fi = NoResult THEN <<>> ELSE <<fi>>) \o FileInfos(Tail(items))

\* list.sort(key=lambda x: x["lines_changed"], reverse=True): stable, the
\* larger first
RECURSIVE SortByLinesChanged(_)
SortByLinesChanged(fs) ==
    IF fs = <<>> THEN <<>>
    ELSE LET top == CHOOSE i \in DOMAIN fs :
                       /\ \A j \in DOMAIN fs : fs[j].lines_changed <= fs[i].lines_changed
                       /\ \A j \in 1..(i - 1) : fs[j].lines_changed < fs[i].lines_changed
         IN  <<fs[top]>> \o SortByLinesChanged(SubSeq(fs, 1, top - 1)
                                                \o SubSeq(fs, top + 1, Len(fs)))

\* CommitFinder._get_commit_file_changes(commit): a failing stats call and a
\* failing diff call (re-raised at line 286) both end in the fallback of
\* lines 305-313
get_commit_file_changes(c) ==
    IF c.git_fail \in {"stats", "diff"}
    THEN [files |-> <<>>, error |-> <<"Could not retrieve file changes: ">>]
    ELSE [files |-> SortByLinesChanged(FileInfos(c.diff_items))]

(***************************************************************************)
(* Specification SpecFileChanges: one call of _get_commit_file_changes on  *)
(* a drawn commit.                                                         *)
(***************************************************************************)

MaxDiffItems == 2

\* a_path, b_path, new_file, deleted_file, renamed_file, diff, insertions, deletions
DiffItemKinds ==
    { <<FooJava,   FooJava,  FALSE, FALSE, FALSE, FixPatch, 1, 2>>,
      <<NotesTxt,  NotesTxt, FALSE, FALSE, FALSE, <<>>, 0, 0>>,         \* a binary file
      <<NewJava,   NewJava,  TRUE,  FALSE, FALSE, <<H0, AddLine>>, 1, 0>>,
      <<FooJava,   FooJava,  FALSE, TRUE,  FALSE, <<H1, DelLine>>, 0, 1>>,
      <<OtherJava, NoPath,   FALSE, TRUE,  FALSE, <<H1, DelLine>>, 0, 1>>,
      <<OldTxt,    NewJava,  FALSE, FALSE, TRUE,  <<>>, 0, 0>>,         \* similarity 100%
      <<OldTxt,    NotesTxt, FALSE, FALSE, TRUE,  FixPatch, 0, 0>> }

DiffItemPool ==
    { [a_path |-> d[1], b_path |-> d[2], new_file |-> d[3], deleted_file |-> d[4],
       renamed_file |-> d[5], diff |-> d[6], insertions |-> d[7], deletions |-> d[8]] :
        d \in DiffItemKinds }

ItemPath(d) == IF d.b_path # NoPath THEN d.b_path ELSE d.a_path

\* the diffs a commit can have: one item per file, one rename of a file
DiffItemLists ==
    {ds \in SeqsUpTo(DiffItemPool, MaxDiffItems) :
        \A i, j \in DOMAIN ds :
           i # j => /\ ItemPath(ds[i]) # ItemPath(ds[j])
                    /\ ~(ds[i].renamed_file /\ ds[j].renamed_file)}

ParentLists == {<<>>, <<<<"a1">>>>, <<<<"a1">>, <<"b2">>>>}

\* the diff of a commit without parents (against the empty tree) has added
\* files only
Commits ==
    {c \in [hexsha : {FixSha}, parents : ParentLists, message : {<<>>},
            diff_items : DiffItemLists, git_fail : {"none", "stats", "diff"}] :
        c.parents = <<>> => \A i \in DOMAIN c.diff_items : c.diff_items[i].new_file}

InitFileChanges ==
    /\ commit_obj \in Commits
    /\ files_changed = NoResult
    /\ changes_pc = "call"
    /\ ResolveIdle
    /\ MatchIdle
    /\ ChunksIdle
    /\ AnalyzeIdle
    /\ IssueIdle
    /\ SearchIdle
    /\ BatchIdle
    /\ ParseIdle

\* one call of CommitFinder._get_commit_file_changes
GetFileChanges ==
    /\ changes_pc = "call"
    /\ files_changed' = get_commit_file_changes(commit_obj)
    /\ changes_pc' = "returned"
    /\ UNCHANGED <<commit_obj, resolveVars, matchVars, chunkVars, analyzeVars, issueVars, searchVars, batchVars, parseVars>>

NextFileChanges == GetFileChanges

SpecFileChanges == InitFileChanges /\ [][NextFileChanges]_vars

(***************************************************************************)
(* Claims about _get_commit_file_changes                                   *)
(***************************************************************************)

\* C11 as stated: every emitted file record of change_type RENAME carries
\* the old path and the new path of the renamed file (the old path under
\* the key old_path, which analyze_fix_commit reads).
C11_Original ==
    changes_pc = "returned" =>
        \A k \in DOMAIN files_changed.files :
           files_changed.files[k].change_type = "RENAME" =>
              /\ files_changed.files[k].path # NoPath
              /\ "old_path" \in DOMAIN files_changed.files[k]
              /\ files_changed.files[k].old_path # NoPath

(***************************************************************************)
(* CommitFinder._search_project_commits                                    *)
(*                                                                         *)
(* A commit message is the sequence of its lines, a line a sequence of     *)
(* tokens; an issue key is one token, and a key followed by further digits *)
(* ("ZK-10") is the key token followed by a digit token.                   *)
(***************************************************************************)

\* re.IGNORECASE, on the tokens keys are written with
FoldCase(t) ==
    CASE t = "zk-1" -> "ZK-1"
      [] t = "zk-2" -> "ZK-2"
      [] OTHER      -> t

\* the tokens that begin with a word character (\w)
WordTokens == {"ZK-1", "ZK-2", "zk-1", "zk-2", "0", "fix", "merge"}

\* \b after a key that ends at token i - 1: the line ends or a non-word
\* character follows
WordBoundary(line, i) == i > Len(line) \/ line[i] \notin WordTokens

MutPatternAnywhere(line, issue_key, p) ==
    \E i \in DOMAIN line : FoldCase(line[i]) = issue_key

\* lines 149-153: pattern p of issue_key matches at the start of line
PatternMatchesLine(line, issue_key, p) ==
    CASE p = 1 -> /\ Len(line) >= 1 /\ FoldCase(line[1]) = issue_key
                  /\ WordBoundary(line, 2)
      [] p = 2 -> /\ Len(line) >= 2 /\ line[1] = "#" /\ FoldCase(line[2]) = issue_key
                  /\ WordBoundary(line, 3)
      [] p = 3 -> /\ Len(line) >= 3 /\ line[1] = "[" /\ FoldCase(line[2]) = issue_key
                  /\ line[3] = "]"

\* pattern.search(commit_msg) with re.MULTILINE: ^ is the start of any line
PatternSearch(message, issue_key, p) ==
    \E l \in DOMAIN message : PatternMatchesLine(message[l], issue_key, p)

\* lines 189-196: the issue keys one of whose patterns matches the message
matched_issues(message, keys) ==
    {k \in Range(keys) : \E p \in 1..3 : PatternSearch(message, k, p)}

\* lines 122, 164: 'origin' not in ref.name
IsScanned(name) == \A i \in DOMAIN name : name[i] # "origin/"

RECURSIVE ScannedNames(_)
ScannedNames(refs) ==
    IF refs = <<>> THEN <<>>
    ELSE (IF IsScanned(Head(refs).name) THEN <<Head(refs).name>> ELSE <<>>)
         \o ScannedNames(Tail(refs))

\* repo.iter_commits(branch, max_count=50000)
max_count == 50000

iter_commits(refs, branch) ==
    LET cs == refs[CHOOSE i \in DOMAIN refs : refs[i].name = branch].commits
    IN  IF Len(cs) <= max_count THEN cs ELSE SubSeq(cs, 1, max_count)

\* lines 215-219: at most this many commits per issue
CommitCap == 5

\* lines 127-143: the results structure
InitialResults(keys) ==
    [i \in DOMAIN keys |-> [key |-> keys[i], data |-> [commits |-> <<>>, commit_count |-> 0]]]

\* lines 201-213: commit_info, for a commit that has a parent
commit_info(c, branch) ==
    [full_sha |-> c.hexsha, num_parents |-> Len(c.parents),
     parent_full_sha |-> c.parents[1], branch |-> branch,
     files_changed |-> get_commit_file_changes(c)]

MutAppendUncapped(pr, matched, info) ==
    [i \in DOMAIN pr |->
        IF pr[i].key \in matched
        THEN [pr[i] EXCEPT !.data.commits = Append(@, info), !.data.commit_count = @ + 1]
        ELSE pr[i]]

\* lines 215-219
AppendToIssues(pr, matched, info) ==
    [i \in DOMAIN pr |->
        IF pr[i].key \in matched /\ Len(pr[i].data.commits) < CommitCap
        THEN [pr[i] EXCEPT !.data.commits = Append(@, info), !.data.commit_count = @ + 1]
        ELSE pr[i]]

MutNeverSeen(c, seen) == FALSE

\* line 176
AlreadySeen(c, seen) == c.hexsha \in seen

MutMergeNotSkipped(c) == FALSE

\* line 182
IsMerge(c) == Len(c.parents) >= 2

(***************************************************************************)
(* Specification SpecSearch: one call of _search_project_commits, stepped  *)
(* through the loops over the branches and their commits.  The repository  *)
(* has the branch main, its remote-tracking ref, and a branch that shares  *)
(* the older part of main's history.                                       *)
(***************************************************************************)

MaxHistory == 6
MaxSpecial == 2

Digit == <<"1", "2", "3", "4", "5", "6", "7", "8", "9">>

Sha(prefix, i) == <<prefix, Digit[i]>>

\* the kinds of commit a history is drawn from
KindMessage(kind) ==
    CASE kind = "m1"   -> << <<"ZK-1", ":", " ", "fix">> >>
      [] kind = "m12"  -> << <<"[", "zk-1", "]", " ", "fix">>, <<"#", "ZK-2", " ", "fix">> >>
      [] kind = "mg"   -> << <<"ZK-1", ":", " ", "merge">> >>
      [] kind = "root" -> << <<"ZK-1", ":", " ", "fix">> >>
      [] kind = "nm"   -> << <<"fix", " ", "ZK-1">>, <<"ZK-2", "0", ":", " ", "fix">> >>

KindItems(kind) ==
    LET item(d) == [a_path |-> d[1], b_path |-> d[2], new_file |-> d[3],
                    deleted_file |-> d[4], renamed_file |-> d[5], diff |-> d[6],
                    insertions |-> d[7], deletions |-> d[8]]
    IN  CASE kind = "m1"   -> <<item(<<FooJava, FooJava, FALSE, FALSE, FALSE, FixPatch, 1, 2>>)>>
          [] kind = "root" -> <<item(<<NewJava, NewJava, TRUE, FALSE, FALSE, <<H0, AddLine>>, 1, 0>>)>>
          [] OTHER         -> <<>>

MakeCommit(kind, sha, next_sha) ==
    [hexsha |-> sha,
     parents |-> CASE kind = "root" -> <<>>
                   [] kind = "mg"   -> <<next_sha, <<"e", "1">>>>
                   [] OTHER         -> <<next_sha>>,
     message |-> KindMessage(kind), diff_items |-> KindItems(kind), git_fail |-> "none"]

\* the commits of main, newest first
History(kinds) ==
    [i \in DOMAIN kinds |->
        MakeCommit(kinds[i], Sha("c", i),
                   IF i < Len(kinds) THEN Sha("c", i + 1) ELSE <<"p", "0">>)]

\* a commit without parents is the oldest of the list unless a merge brought
\* in a second history
KindLists ==
    {ks \in SeqsUpTo({"m1", "m12", "mg", "nm", "root"}, MaxHistory) :
        /\ Cardinality({i \in DOMAIN ks : ks[i] # "m1"}) <= MaxSpecial
        /\ \A i \in DOMAIN ks :
              (ks[i] = "root" /\ i < Len(ks)) => \E j \in 1..(i - 1) : ks[j] = "mg"}

\* repo.references in the order git lists them
References(kinds, start, own) ==
    LET main == History(kinds)
        shared == SubSeq(main, start, Len(main))
        mine == IF own THEN <<MakeCommit("m1", Sha("d", 1),
                                         IF shared = <<>> THEN <<"p", "0">>
                                         ELSE shared[1].hexsha)>>
                ELSE <<>>
    IN  << [name |-> <<"branch-3">>, commits |-> mine \o shared],
           [name |-> <<"main">>, commits |-> main],
           [name |-> <<"origin/", "main">>, commits |-> main] >>

InitSearch ==
    /\ \E ks \in KindLists, own \in BOOLEAN :
          \* branch-3 shares all of main, all but its newest commit, or nothing
          \E start \in {1, 2, Len(ks) + 1} :
              /\ start <= Len(ks) + 1
              /\ references = References(ks, start, own)
    /\ issues \in {<<"ZK-1">>, <<"ZK-1", "ZK-2">>}
    /\ all_branches = <<>>
    /\ project_results = <<>>
    /\ seen_commits = {}
    /\ commits_processed = 0
    /\ commits_with_matches = 0
    /\ branch_idx = 0
    /\ commit_idx = 0
    /\ matched_log = <<>>
    /\ search_pc = "start"
    /\ ResolveIdle
    /\ MatchIdle
    /\ ChunksIdle
    /\ AnalyzeIdle
    /\ IssueIdle
    /\ FileChangesIdle
    /\ BatchIdle
    /\ ParseIdle

\* lines 127-166
StartSearch ==
    /\ search_pc = "start"
    /\ project_results' = InitialResults(issues)
    /\ all_branches' = ScannedNames(references)
    /\ branch_idx' = 1
    /\ commit_idx' = 1
    /\ search_pc' = "scan"
    /\ UNCHANGED <<references, issues, seen_commits, commits_processed, commits_with_matches,
                   matched_log>>
    /\ UNCHANGED <<resolveVars, matchVars, chunkVars, analyzeVars, issueVars, fileChangesVars, batchVars, parseVars>>

\* lines 174-219: one iteration of the loop over the commits of a branch;
\* commit.parents[0] of line 205 raises for a commit without parents, and the
\* handler of lines 223-225 goes on with the next branch
ScanCommit ==
    /\ search_pc = "scan"
    /\ branch_idx <= Len(all_branches)
    /\ LET branch == all_branches[branch_idx]
           cs == iter_commits(references, branch)
       IN  /\ commit_idx <= Len(cs)
           /\ LET c == cs[commit_idx]
                  matched == matched_issues(c.message, issues)
              IN  IF AlreadySeen(c, seen_commits)
                  THEN /\ commit_idx' = commit_idx + 1
                       /\ UNCHANGED <<seen_commits, commits_processed, commits_with_matches,
                                      matched_log, project_results, branch_idx>>
                  ELSE /\ seen_commits' = seen_commits \cup {c.hexsha}
                       /\ commits_processed' = commits_processed + 1
                       /\ IF IsMerge(c)
                          THEN /\ commit_idx' = commit_idx + 1
                               /\ UNCHANGED <<commits_with_matches, matched_log,
                                              project_results, branch_idx>>
                          ELSE /\ matched_log' = Append(matched_log, c.hexsha)
                               /\ commits_with_matches' =
                                     commits_with_matches + (IF matched # {} THEN 1 ELSE 0)
                               /\ IF matched # {} /\ c.parents = <<>>
                                  THEN /\ branch_idx' = branch_idx + 1
                                       /\ commit_idx' = 1
                                       /\ project_results' = project_results
                                  ELSE /\ branch_idx' = branch_idx
                                       /\ commit_idx' = commit_idx + 1
                                       /\ project_results' =
                                             IF matched # {}
                                             THEN AppendToIssues(project_results, matched,
                                                                 commit_info(c, branch))
                                             ELSE project_results
    /\ UNCHANGED <<references, issues, all_branches, search_pc>>
    /\ UNCHANGED <<resolveVars, matchVars, chunkVars, analyzeVars, issueVars, fileChangesVars, batchVars, parseVars>>

\* the commits of the branch are exhausted: lines 221, 169
NextBranch ==
    /\ search_pc = "scan"
    /\ branch_idx <= Len(all_branches)
    /\ commit_idx > Len(iter_commits(references, all_branches[branch_idx]))
    /\ branch_idx' = branch_idx + 1
    /\ commit_idx' = 1
    /\ UNCHANGED <<references, issues, all_branches, project_results, seen_commits,
                   commits_processed, commits_with_matches, matched_log, search_pc>>
    /\ UNCHANGED <<resolveVars, matchVars, chunkVars, analyzeVars, issueVars, fileChangesVars, batchVars, parseVars>>

\* lines 227-234
ReturnResults ==
    /\ search_pc = "scan"
    /\ branch_idx > Len(all_branches)
    /\ search_pc' = "returned"
    /\ UNCHANGED <<references, issues, all_branches, project_results, seen_commits,
                   commits_processed, commits_with_matches, branch_idx, commit_idx,
                   matched_log>>
    /\ UNCHANGED <<resolveVars, matchVars, chunkVars, analyzeVars, issueVars, fileChangesVars, batchVars, parseVars>>

NextSearch == StartSearch \/ ScanCommit \/ NextBranch \/ ReturnResults

SpecSearch == InitSearch /\ [][NextSearch]_vars

(***************************************************************************)
(* Claims about _search_project_commits                                    *)
(***************************************************************************)

\* the commits of the scanned references
ScannedCommits ==
    UNION {Range(references[i].commits) : i \in {j \in DOMAIN references :
                                                    IsScanned(references[j].name)}}

CommitsOf(i) == project_results[i].data.commits

RecordedFor(i) == {CommitsOf(i)[k].full_sha : k \in DOMAIN CommitsOf(i)}

CapHolds ==
    \A i \in DOMAIN project_results :
       /\ Len(CommitsOf(i)) <= 5
       /\ project_results[i].data.commit_count = Len(CommitsOf(i))

FullIssuesKept ==
    \A i \in DOMAIN project_results :
       Len(CommitsOf(i)) = 5 => project_results'[i] = project_results[i]

\* C12: at every point each issue has at most 5 commits and commit_count is
\* the length of commits; a step never changes an issue that holds 5.
C12_CapAndCount == [](CapHolds) /\ [][FullIssuesKept]_vars

\* ZK-1 holds 5 commits and a sixth commit with a parent whose message
\* matched it was scanned and is not among them
C12_Witness ==
    /\ search_pc = "returned"
    /\ project_results[1].key = "ZK-1"
    /\ Len(CommitsOf(1)) = 5
    /\ \E c \in ScannedCommits :
          /\ \E k \in DOMAIN matched_log : matched_log[k] = c.hexsha
          /\ "ZK-1" \in matched_issues(c.message, issues)
          /\ c.parents # <<>>
          /\ c.hexsha \notin RecordedFor(1)

\* C13: a commit is processed once: no commit reaches the matching twice,
\* commits_processed counts the seen commits, and no issue has two entries
\* with the same full_sha.
C13_ProcessedOnce ==
    /\ \A a, b \in DOMAIN matched_log : matched_log[a] = matched_log[b] => a = b
    /\ commits_processed = Cardinality(seen_commits)
    /\ \A i \in DOMAIN project_results :
          \A a, b \in DOMAIN CommitsOf(i) :
             CommitsOf(i)[a].full_sha = CommitsOf(i)[b].full_sha => a = b

\* a matching commit that is in the history of branch-3 and of main was
\* recorded, once
C13_Witness ==
    /\ search_pc = "returned"
    /\ \E c \in Range(references[1].commits) \cap Range(references[2].commits) :
          /\ c.hexsha \in RecordedFor(1)
          /\ Cardinality({k \in DOMAIN matched_log : matched_log[k] = c.hexsha}) = 1

\* C14: a commit with two or more parents never reaches the matching and is
\* in no issue's commits, and every such commit the scan of the current
\* branch has passed is in seen_commits.
C14_MergeSkippedButSeen ==
    /\ \A c \in ScannedCommits :
          Len(c.parents) >= 2 =>
             /\ \A k \in DOMAIN matched_log : matched_log[k] # c.hexsha
             /\ \A i \in DOMAIN project_results : c.hexsha \notin RecordedFor(i)
    /\ (search_pc = "scan" /\ branch_idx <= Len(all_branches)) =>
          LET cs == iter_commits(references, all_branches[branch_idx])
          IN  \A j \in DOMAIN cs :
                 (j < commit_idx /\ Len(cs[j].parents) >= 2) => cs[j].hexsha \in seen_commits

\* a merge whose message begins with ZK-1 lies on both branches, was seen,
\* and ZK-1 got other commits but not this one
C14_Witness ==
    /\ search_pc = "returned"
    /\ \E c \in Range(references[1].commits) \cap Range(references[2].commits) :
          /\ Len(c.parents) >= 2
          /\ "ZK-1" \in matched_issues(c.message, issues)
          /\ c.hexsha \in seen_commits
          /\ c.hexsha \notin RecordedFor(1)
    /\ CommitsOf(1) # <<>>

\* C15 as stated: when the search has returned, every scanned commit with
\* fewer than two parents whose message matches an issue is among the
\* issue's commits, unless the issue holds 5; this includes a commit without
\* parents.
C15_Original ==
    search_pc = "returned" =>
        \A c \in ScannedCommits :
           \A i \in DOMAIN project_results :
              (Len(c.parents) < 2 /\ project_results[i].key \in matched_issues(c.message, issues))
                 => (c.hexsha \in RecordedFor(i) \/ Len(CommitsOf(i)) = 5)

(***************************************************************************)
(* Claims about the clones of process_single_issue                         *)
(***************************************************************************)

\* the shared repository as it is handed in: on main, at the commit c0de
SharedUntouched ==
    base_repo.head = <<"c0de">> /\ base_repo.active_branch = <<"main">>

\* the clone a version starts with is a new one: it is at the shared
\* repository's commit, whatever was checked out for the version before
FreshClone ==
    (issue_pc = "commit" /\ ci = 1) => temp_repo = clone_from(base_repo)

\* C16: no step changes the shared repository, which stays on the branch and
\* commit it was handed in with, and every affected version starts with a
\* clone made for it.
C16_SharedRepoUntouched ==
    [](SharedUntouched /\ FreshClone) /\ [][base_repo' = base_repo]_vars

\* the second version starts after a commit was checked out in the clone of
\* the first
C16_Witness ==
    /\ issue_pc = "commit" /\ vi = 2 /\ ci = 1
    /\ \E u \in DOMAIN unit_log : unit_log[u].version = 1 /\ unit_log[u].checked_out
    /\ temp_repo.head = <<"c0de">>
    /\ SharedUntouched

\* C17: once process_single_issue has returned or raised no temporary
\* directory and no clone exists, and while it runs the only one is that of
\* the version being processed.
C17_CloneDestroyed ==
    /\ issue_pc \in {"returned", "raised"} => (temp_dirs = {} /\ temp_repo = NoRepo)
    /\ temp_dirs \subseteq {vi}
    /\ issue_pc = "clone" => (temp_dirs = {} /\ temp_repo = NoRepo)

\* the clone of the second version failed after the first version had a
\* failed checkout, a failed resolution or a failed diff
C17_Witness ==
    /\ issue_pc = "raised" /\ vi = 2
    /\ \E u \in DOMAIN unit_log :
          \/ ~unit_log[u].checked_out
          \/ unit_log[u].git_fail # "none"
          \/ unit_log[u].diff_raised
    /\ temp_dirs = {}

\* C20 as stated: for every unit whose checkout or cross-diff failed, the
\* results hold an entry for the unit's version and commit with a non-empty
\* error.
C20_Original ==
    \A u \in DOMAIN unit_log :
       (~unit_log[u].checked_out \/ unit_log[u].diff_raised) =>
          \E k \in DOMAIN results :
             /\ results[k].affected_version = issue_data.affects[unit_log[u].version]
             /\ results[k].fixing_commit_sha = issue_data.commits[unit_log[u].commit].full_sha
             /\ results[k].error # NoError

(***************************************************************************)
(* process_issues (p7_create_test_data.py:486-546)                         *)
(***************************************************************************)

\* RepositoryValidator.validate_config: config.repositories.get(project)
validate_config(project, repositories) ==
    IF project \in DictKeys(repositories) THEN DictGet(repositories, project) ELSE None

\* RepositoryValidator.validate_path: Path(repo_path).exists()
validate_path(repo_config) == repo_config.path_exists

\* RepositoryValidator.open_repository: git.Repo(repo_path) under
\* handle_git_errors, the repository or False
open_repository(repo_config) ==
    handle_git_errors(<<"open_repository">>,
                      IF repo_config.opens THEN repo_config.repo ELSE Raised)

MutNoneMissing(repositories) == <<>>

\* RepositoryValidator.check_missing_repositories: every configured project
\* whose local_path does not exist, in the order of config.repositories
check_missing_repositories(repositories) ==
    SelectSeq(repositories, LAMBDA e : ~e.data.path_exists)

\* process_single_issue as one call: the loop over the fix commits of one
\* affected version in its clone (lines 464-478)
RECURSIVE CommitResults(_, _, _, _)
CommitResults(clone, issue, affected_version, k) ==
    IF k > Len(issue.commits) THEN <<>>
    ELSE LET co == checkout_commit(clone, issue.commits[k].full_sha)
         IN  (IF co.ret = TrueV
              THEN <<analyze_fix_commit(co.repo, detect_tag_prefixes(co.repo),
                                        issue.git_fail, affected_version, issue.commits[k],
                                        issue.diff_out)>>
              ELSE <<>>)
             \o CommitResults(co.repo, issue, affected_version, k + 1)

\* the loop over the affected versions (lines 451-478)
RECURSIVE VersionResults(_, _, _)
VersionResults(r, issue, k) ==
    IF k > Len(issue.affects) THEN <<>>
    ELSE CommitResults(clone_from(r), issue, issue.affects[k], 1)
         \o VersionResults(r, issue, k + 1)

\* lines 439-483: None without affected versions, the exception of
\* git.Repo.clone_from when the clone fails, the results otherwise
process_single_issue(r, issue) ==
    IF issue.affects = <<>> THEN None
    ELSE IF ~issue.clone_ok THEN Raised
    ELSE [analysis_results |-> VersionResults(r, issue, 1)]

(***************************************************************************)
(* Specification: process_issues over inputs and repository states         *)
(***************************************************************************)

MaxProjects == 2
MaxIssues == 2
MaxFaults == 1

\* config.repositories (src/utils.py) and a project the input may name
\* that has no entry there
ConfiguredProjects == <<"HBase", "ZooKeeper">>
InputProjects == {"HBase", "ZooKeeper", "Kafka"}

ProjectRepo(project) ==
    [tags |-> {<<"release-">> \o V10}, heads |-> {<<"main">>, <<"branch-3">>},
     refs |-> {}, origin_url |-> <<"https://github.com/apache/", project, ".git">>,
     working_dir |-> <<"/base/repos/", project>>,
     objects |-> {FixSha}, active_branch |-> <<"main">>, head |-> <<"c0de">>]

\* the state of a configured repository on disk
RepoStates ==
    { [path_exists |-> TRUE,  opens |-> TRUE],
      [path_exists |-> TRUE,  opens |-> FALSE],
      [path_exists |-> FALSE, opens |-> FALSE] }

Repositories ==
    { [i \in DOMAIN ConfiguredProjects |->
          [key |-> ConfiguredProjects[i],
           data |-> [path_exists |-> st[i].path_exists, opens |-> st[i].opens,
                     repo |-> ProjectRepo(ConfiguredProjects[i])]]] :
        st \in [DOMAIN ConfiguredProjects -> RepoStates] }

CommitOf(sha) == CHOOSE c \in CommitPool : c.full_sha = sha
DiffOf(raised) == CHOOSE d \in IssueDiffs : d.raised = raised

\* an issue and what git does while it is processed:
\* <<kind, affects, fix commit, clone succeeds, failing git query, diff raises>>
IssueKinds ==
    { <<"ok",       <<V10>>,      FixSha,  TRUE,  "none", FALSE>>,
      <<"empty",    <<>>,         FixSha,  TRUE,  "none", FALSE>>,
      <<"clone",    <<V10>>,      FixSha,  FALSE, "none", FALSE>>,
      <<"checkout", <<V10>>,      BeefSha, TRUE,  "none", FALSE>>,
      <<"resolve",  <<<<"9.9">>>>, FixSha, TRUE,  "none", FALSE>>,
      <<"diff",     <<V10>>,      FixSha,  TRUE,  "none", TRUE>> }

IssueOf(k) ==
    [kind |-> k[1], affects |-> k[2], commits |-> <<CommitOf(k[3])>>,
     clone_ok |-> k[4], git_fail |-> k[5], diff_out |-> DiffOf(k[6])]

IssueNamed(kind) == IssueOf(CHOOSE k \in IssueKinds : k[1] = kind)

FaultKinds == {k[1] : k \in IssueKinds} \ {"ok"}

IssueDict(project, is) ==
    [i \in DOMAIN is |-> [key |-> <<project, "-", Digit[i]>>, data |-> is[i]]]

\* the projects of the input, in its order
ProjectSeqs ==
    {ps \in SeqsUpTo(InputProjects, MaxProjects) :
        \A i, j \in DOMAIN ps : i # j => ps[i] # ps[j]}

\* every project of the input has MaxIssues issues; at most MaxFaults of the
\* issues of the input are not of the kind "ok"
Slots(ps) == {<<k, i>> : k \in DOMAIN ps, i \in 1..MaxIssues}

FaultPlans(ps) ==
    UNION {[S -> FaultKinds] :
              S \in {T \in SUBSET Slots(ps) : Cardinality(T) <= MaxFaults}}

Input(ps, plan) ==
    [k \in DOMAIN ps |->
        [key |-> ps[k],
         data |-> IssueDict(ps[k],
                     [i \in 1..MaxIssues |->
                         IssueNamed(IF <<k, i>> \in DOMAIN plan
                                    THEN plan[<<k, i>>] ELSE "ok")])]]

InputData == UNION {{Input(ps, plan) : plan \in FaultPlans(ps)} : ps \in ProjectSeqs}

InitBatch ==
    /\ config_repositories \in Repositories
    /\ input_data \in InputData
    /\ batch_results = <<>>
    /\ batch_project_results = <<>>
    /\ batch_repo = NoRepo
    /\ output_file = NoFile
    /\ pi = 0
    /\ ii = 0
    /\ batch_pc = "start"
    /\ ResolveIdle
    /\ MatchIdle
    /\ ChunksIdle
    /\ AnalyzeIdle
    /\ IssueIdle
    /\ FileChangesIdle
    /\ SearchIdle
    /\ ParseIdle

\* lines 491-499: the check of every configured repository, sys.exit(1) when
\* one is missing; lines 501-507 otherwise
BatchStart ==
    /\ batch_pc = "start"
    /\ IF check_missing_repositories(config_repositories) # <<>>
       THEN /\ batch_pc' = "exited"
            /\ pi' = pi
       ELSE /\ batch_pc' = "project"
            /\ pi' = 1
    /\ UNCHANGED <<config_repositories, input_data, batch_results, batch_project_results,
                   batch_repo, output_file, ii>>
    /\ UNCHANGED <<resolveVars, matchVars, chunkVars, analyzeVars, issueVars, fileChangesVars, searchVars, parseVars>>

\* lines 509-526: the head of one iteration of the loop over the projects
BeginProject ==
    /\ batch_pc = "project"
    /\ pi <= Len(input_data)
    /\ LET project == input_data[pi].key
           repo_config == validate_config(project, config_repositories)
       IN  IF repo_config = None
           THEN /\ pi' = pi + 1
                /\ UNCHANGED <<batch_repo, batch_project_results, ii, batch_pc>>
           ELSE IF ~validate_path(repo_config)
           THEN /\ pi' = pi + 1
                /\ UNCHANGED <<batch_repo, batch_project_results, ii, batch_pc>>
           ELSE LET opened == open_repository(repo_config)
                IN  IF opened = FalseV
                    THEN /\ pi' = pi + 1
                         /\ UNCHANGED <<batch_repo, batch_project_results, ii, batch_pc>>
                    ELSE /\ batch_repo' = opened
                         /\ batch_project_results' = <<>>
                         /\ ii' = 1
                         /\ batch_pc' = "issue"
                         /\ pi' = pi
    /\ UNCHANGED <<config_repositories, input_data, batch_results, output_file>>
    /\ UNCHANGED <<resolveVars, matchVars, chunkVars, analyzeVars, issueVars, fileChangesVars, searchVars, parseVars>>

\* lines 528-534: one issue of the project; an exception of
\* process_single_issue is caught nowhere in process_issues nor in main
ProcessIssue ==
    /\ batch_pc = "issue"
    /\ ii <= Len(input_data[pi].data)
    /\ LET issue_key == input_data[pi].data[ii].key
           result == process_single_issue(batch_repo, input_data[pi].data[ii].data)
       IN  IF result = Raised
           THEN /\ batch_pc' = "raised"
                /\ UNCHANGED <<batch_project_results, ii>>
           ELSE /\ batch_project_results' =
                       IF result # None
                       THEN DictPut(batch_project_results, issue_key, result)
                       ELSE batch_project_results
                /\ ii' = ii + 1
                /\ batch_pc' = batch_pc
    /\ UNCHANGED <<config_repositories, input_data, batch_results, batch_repo,
                   output_file, pi>>
    /\ UNCHANGED <<resolveVars, matchVars, chunkVars, analyzeVars, issueVars, fileChangesVars, searchVars, parseVars>>

\* lines 537-538: the end of the loop over the issues of the project
EndProject ==
    /\ batch_pc = "issue"
    /\ ii > Len(input_data[pi].data)
    /\ batch_results' = IF batch_project_results # <<>>
                        THEN DictPut(batch_results, input_data[pi].key,
                                     batch_project_results)
                        ELSE batch_results
    /\ pi' = pi + 1
    /\ batch_pc' = "project"
    /\ UNCHANGED <<config_repositories, input_data, batch_project_results, batch_repo,
                   output_file, ii>>
    /\ UNCHANGED <<resolveVars, matchVars, chunkVars, analyzeVars, issueVars, fileChangesVars, searchVars, parseVars>>

\* line 542: save_json(results, output_file) after the loop
SaveResults ==
    /\ batch_pc = "project"
    /\ pi > Len(input_data)
    /\ output_file' = save_json(batch_results)
    /\ batch_pc' = "saved"
    /\ UNCHANGED <<config_repositories, input_data, batch_results, batch_project_results,
                   batch_repo, pi, ii>>
    /\ UNCHANGED <<resolveVars, matchVars, chunkVars, analyzeVars, issueVars, fileChangesVars, searchVars, parseVars>>

NextBatch == BatchStart \/ BeginProject \/ ProcessIssue \/ EndProject \/ SaveResults

SpecBatch == InitBatch /\ [][NextBatch]_vars

(***************************************************************************)
(* Claims about process_issues                                             *)
(***************************************************************************)

\* process_issues is over: it returned, exited or let an exception out
BatchOver == batch_pc \in {"saved", "exited", "raised"}

\* the issues of project entry e that give a result when processed alone
Yielding(e) ==
    {i \in DOMAIN e.data :
        process_single_issue(ProjectRepo(e.key), e.data[i].data) \notin {None, Raised}}

\* the repository of project entry e is configured, present and opens
Available(e) ==
    /\ e.key \in DictKeys(config_repositories)
    /\ DictGet(config_repositories, e.key).path_exists
    /\ DictGet(config_repositories, e.key).opens

\* the written output holds the result of issue i of project entry e
Written(e, i) ==
    /\ output_file.written
    /\ e.key \in DictKeys(output_file.json)
    /\ e.data[i].key \in DictKeys(DictGet(output_file.json, e.key))

\* C18: a failed clone, checkout, version resolution or diff inside one unit
\* never aborts the batch: when process_issues is over after the check of the
\* repositories passed, every project was visited, the output file is written
\* and it holds every issue of an available project that yields a result
C18_Original ==
    batch_pc \in {"saved", "raised"} =>
        /\ batch_pc = "saved"
        /\ pi > Len(input_data)
        /\ \A k \in DOMAIN input_data :
              Available(input_data[k]) =>
                  \A i \in Yielding(input_data[k]) : Written(input_data[k], i)

MissingPaths ==
    {config_repositories[k].key :
        k \in {j \in DOMAIN config_repositories :
                  ~config_repositories[j].data.path_exists}}

IsJavaPath(path) == EndsWith(path, <<".java">>)

\* the parsed cross-diff has a file under the key path whose deleted lines
\* hold the content of a deletion of the fix commit's record for fix_path
DeletionsMatch(path, fix_path) ==
    LET parsed == parse_diff_output(cross_diff.lines)
    IN  /\ path \in DictKeys(parsed)
        /\ \E k \in DOMAIN commit_data.files :
              /\ commit_data.files[k].path = fix_path
              /\ commit_data.files[k].change_type \in {"MODIFY", "DELETE", "RENAME"}
              /\ \E c \in Range(AllChanges(commit_data.files[k].chunks)) :
                    /\ c.type = "DELETE"
                    /\ \E d \in Range(DictGet(parsed, path).deleted_lines) :
                          Strip(d.content) = Strip(c.content)

\* C21: every changes entry is about a file whose affected-version path, or
\* for a rename its fix-commit path, ends in ".java"; a file of the cross-diff
\* whose old and new paths both lack the extension has no entry, also when
\* its deleted lines match deletions of the fix commit
C21_OnlyJavaEntries ==
    analyze_pc = "returned" =>
        /\ \A e \in DOMAIN ChangesOut :
              \/ IsJavaPath(ChangesOut[e].affected_version.filename)
              \/ (ChangesOut[e].is_rename /\ IsJavaPath(ChangesOut[e].fixing_commit.filename))
        /\ \A e \in DOMAIN ChangesOut :
              ~(/\ ~IsJavaPath(ChangesOut[e].affected_version.filename)
                /\ ~IsJavaPath(ChangesOut[e].fixing_commit.filename))

\* notes.txt is modified by the fix commit and by the cross-diff with the
\* same deleted content, and the result has no entry for it
C21_Witness ==
    /\ Analyzed
    /\ DeletionsMatch(NotesTxt, NotesTxt)
    /\ \A e \in DOMAIN ChangesOut : ChangesOut[e].affected_version.filename # NotesTxt

(***************************************************************************)
(* More claims about _match_with_fix_commit                                *)
(***************************************************************************)

Matchable(k) == FixChanges[k].type \in {"DELETE", "MODIFY"}

\* the first cross-diff deleted line, in cross-diff order, with the stripped
\* content of fix change k
FirstOf(k) == CHOOSE i \in MatchSet(k) : \A j \in MatchSet(k) : i <= j

\* C22: each DELETE or MODIFY change of the fix contributes at most one line
\* number to modified_lines, that of the first cross-diff deleted line with
\* its stripped content; the number of a later line with the same content is
\* in modified_lines only when it is the number of the first match of another
\* change
C22_FirstMatchOnly ==
    Returned =>
        /\ ModifiedOut =
              {CrossDeleted[FirstOf(k)].line_number :
                  k \in {k \in DOMAIN FixChanges : Matchable(k) /\ MatchSet(k) # {}}}
        /\ \A k \in DOMAIN FixChanges : \A j \in MatchSet(k) :
              (/\ Matchable(k)
               /\ CrossDeleted[j].line_number # CrossDeleted[FirstOf(k)].line_number
               /\ CrossDeleted[j].line_number \in ModifiedOut)
                 => \E k2 \in DOMAIN FixChanges :
                       /\ k2 # k /\ Matchable(k2) /\ MatchSet(k2) # {}
                       /\ CrossDeleted[FirstOf(k2)].line_number = CrossDeleted[j].line_number

\* one change of the fix matches two cross-diff deleted lines with different
\* numbers and only the number of the first is recorded
C22_Witness ==
    /\ Returned
    /\ \E k \in DOMAIN FixChanges : \E j \in MatchSet(k) :
          /\ Matchable(k)
          /\ CrossDeleted[j].line_number # CrossDeleted[FirstOf(k)].line_number
          /\ ModifiedOut = {CrossDeleted[FirstOf(k)].line_number}

(***************************************************************************)
(* Line numbers of _parse_diff_chunks                                      *)
(***************************************************************************)

\* every header of the patch is well formed
NoBadHeader == \A i \in DOMAIN diff_text : diff_text[i] # HBad

\* the positions of the '+' and '-' lines of the hunk whose header is at i
ChangePositions(i) == {j \in BodyOf(i) : diff_text[j] \in {DelLine, AddLine}}

\* the position in the patch of the k-th change of the hunk at i
ChangePos(i, k) ==
    CHOOSE j \in ChangePositions(i) :
        Cardinality({p \in ChangePositions(i) : p < j}) = k - 1

\* the old-side and new-side line numbers of the line at position j of the
\* hunk at i
OldPos(i, j) ==
    Declared(diff_text[i]).s
    + Cardinality({p \in BodyOf(i) : p < j /\ diff_text[p] \in {DelLine, CtxLine}})

NewPos(i, j) ==
    Declared(diff_text[i]).t
    + Cardinality({p \in BodyOf(i) : p < j /\ diff_text[p] \in {AddLine, CtxLine}})

\* C23: every DELETE entry of a chunk is numbered with its position on the
\* old side, old_start plus the DELETE and context lines before it in the
\* hunk; ADD lines before it do not shift its number
C23_Original ==
    (chunks_pc = "returned" /\ NoBadHeader) =>
        \A n \in DOMAIN parsed_chunks : \A k \in DOMAIN parsed_chunks[n].changes :
            parsed_chunks[n].changes[k].type = "DELETE" =>
                parsed_chunks[n].changes[k].line_number
                    = OldPos(NthHeader(n), ChangePos(NthHeader(n), k))

\* C25, for _parse_diff_chunks: every ADD entry of a chunk is numbered with
\* its position on the new side, new_start plus the ADD and context lines
\* before it in the hunk
C25_Original ==
    (chunks_pc = "returned" /\ NoBadHeader) =>
        \A n \in DOMAIN parsed_chunks : \A k \in DOMAIN parsed_chunks[n].changes :
            parsed_chunks[n].changes[k].type = "ADD" =>
                parsed_chunks[n].changes[k].line_number
                    = NewPos(NthHeader(n), ChangePos(NthHeader(n), k))

\* the positions of the well-formed headers of the patch, and the n-th of them
GoodHeaderPositions == {i \in HeaderPositions : diff_text[i] # HBad}
NthGoodHeader(n) ==
    CHOOSE i \in GoodHeaderPositions :
        Cardinality({j \in GoodHeaderPositions : j < i}) = n - 1

\* C26, for _parse_diff_chunks: a line starting with "@@" that is no hunk
\* header ends the hunk before it; the lines after it up to the next
\* well-formed header give no change record, and every chunk parsed before
\* it is in the output once: the output has one chunk per well-formed header,
\* whose changes are the '+' and '-' lines between that header and the next
\* line starting with "@@"
C26_Original ==
    chunks_pc = "returned" =>
        /\ Len(parsed_chunks) = Cardinality(GoodHeaderPositions)
        /\ \A n \in DOMAIN parsed_chunks :
              n <= Cardinality(GoodHeaderPositions) =>
                  Len(parsed_chunks[n].changes)
                      = Cardinality(ChangePositions(NthGoodHeader(n)))

(***************************************************************************)
(* Specification SpecParse: one call of parse_diff_output on the text git  *)
(* diff prints: one file section with drawn hunk lines, or a list of file  *)
(* sections.                                                               *)
(***************************************************************************)

MaxBody == 5

\* "---count;", the removed line "--count;"
DashLine == <<"-", "-", "-", "count;">>

BodyPool == {H1, H2, HBad, DelLine, AddLine, CtxLine, DashLine}

\* the section of Foo.java with the lines of body after its header
FooSection(body) ==
    RenderSection([kind |-> "modify", old |-> FooJava, new |-> FooJava, body |-> "none"])
    \o body

ParseSectionPool ==
    { [kind |-> "modify", old |-> FooJava, new |-> FooJava,   body |-> "del"],
      [kind |-> "modify", old |-> FooJava, new |-> FooJava,   body |-> "add"],
      [kind |-> "copy",   old |-> FooJava, new |-> OtherJava, body |-> "del7"],
      [kind |-> "copy",   old |-> FooJava, new |-> NewJava,   body |-> "none"],
      [kind |-> "rename", old |-> OldTxt,  new |-> NewJava,   body |-> "del"],
      [kind |-> "copy",   old |-> OldTxt,  new |-> OtherJava, body |-> "del7"],
      [kind |-> "modify", old |-> NotesTxt, new |-> NotesTxt, body |-> "del7"] }

\* ordered by path, one section per new path
ParseSectionLists ==
    {secs \in SeqsUpTo(ParseSectionPool, MaxSections) :
        \A i, j \in DOMAIN secs : i < j => PathRank(secs[i].new) < PathRank(secs[j].new)}

InitParse ==
    /\ diff_output \in {FooSection(body) : body \in SeqsUpTo(BodyPool, MaxBody)}
                       \cup {RenderDiff(secs) : secs \in ParseSectionLists}
    /\ parse_results = <<>>
    /\ parse_pc = "call"
    /\ ResolveIdle
    /\ MatchIdle
    /\ ChunksIdle
    /\ AnalyzeIdle
    /\ IssueIdle
    /\ FileChangesIdle
    /\ SearchIdle
    /\ BatchIdle

\* one call of GitDiffAnalyzer.parse_diff_output
Parse ==
    /\ parse_pc = "call"
    /\ parse_results' = parse_diff_output(diff_output)
    /\ parse_pc' = "returned"
    /\ UNCHANGED <<diff_output, resolveVars, matchVars, chunkVars, analyzeVars, issueVars, fileChangesVars, searchVars, batchVars>>

NextParse == Parse

SpecParse == InitParse /\ [][NextParse]_vars

(***************************************************************************)
(* Claims about parse_diff_output                                          *)
(***************************************************************************)

\* the positions of the "diff --git" lines and of the lines starting with "@@"
SectionStarts == {i \in DOMAIN diff_output : StartsWith(diff_output[i], <<"diff --git">>)}
HunkStarts == {i \in DOMAIN diff_output : StartsWith(diff_output[i], <<"@", "@">>)}

\* the positions of the body of the hunk whose header is at position i
HunkBody(i) ==
    {j \in DOMAIN diff_output :
        j > i /\ \A k \in (i + 1)..j : k \notin HunkStarts \cup SectionStarts}

InHunk(j) == \E i \in HunkStarts : j \in HunkBody(i)
HunkOf(j) == CHOOSE i \in HunkStarts : j \in HunkBody(i)

\* in the body of a hunk the first character tells what a line is
IsRemoved(l) == StartsWith(l, <<"-">>)
IsAdded(l)   == StartsWith(l, <<"+">>)
IsContext(l) == StartsWith(l, <<" ">>)

\* the text is one file section, of Foo.java, whose hunk lines all follow a
\* well-formed hunk header
OneSectionDiff ==
    /\ Cardinality(SectionStarts) = 1
    /\ \E j \in DOMAIN diff_output : diff_output[j] = Minus3 \o <<" ", "a/">> \o FooJava
    /\ \A i \in HunkStarts : HunkMatch(diff_output[i]).ok
    /\ \A j \in DOMAIN diff_output :
          diff_output[j] \in {DelLine, AddLine, CtxLine, DashLine} => InHunk(j)

\* the old-side and new-side line numbers of the line at position j
TrueOld(j) ==
    HunkMatch(diff_output[HunkOf(j)]).g1
    + Cardinality({p \in HunkBody(HunkOf(j)) :
                      p < j /\ (IsRemoved(diff_output[p]) \/ IsContext(diff_output[p]))})

TrueNew(j) ==
    HunkMatch(diff_output[HunkOf(j)]).g3
    + Cardinality({p \in HunkBody(HunkOf(j)) :
                      p < j /\ (IsAdded(diff_output[p]) \/ IsContext(diff_output[p]))})

\* the k-th position of the set of positions R
NthOf(R, k) == CHOOSE j \in R : Cardinality({p \in R : p < j}) = k - 1

\* the removed lines of the text, and those of them the parser takes as
\* deleted lines (lines 198-204)
RemovedPositions == {j \in DOMAIN diff_output : InHunk(j) /\ IsRemoved(diff_output[j])}
TakenAsDeleted == {j \in RemovedPositions : ~StartsWith(diff_output[j], Minus3)}
AddedPositions == {j \in DOMAIN diff_output : InHunk(j) /\ IsAdded(diff_output[j])}

\* deleted_lines and added_lines recorded for path, [] when path is no key
DeletedOf(path) ==
    IF path \in DictKeys(parse_results) THEN DictGet(parse_results, path).deleted_lines
    ELSE <<>>
AddedOf(path) ==
    IF path \in DictKeys(parse_results) THEN DictGet(parse_results, path).added_lines
    ELSE <<>>

\* the number the old-side counter has at position j: the old start of the
\* hunk plus the context lines and the lines taken as deleted before j
CounterAt(j) ==
    HunkMatch(diff_output[HunkOf(j)]).g1
    + Cardinality({p \in HunkBody(HunkOf(j)) :
                      p < j /\ (p \in TakenAsDeleted \/ IsContext(diff_output[p]))})

\* C24: every deleted_lines entry is numbered with the old start of its hunk
\* plus the deleted lines (lines starting with "-" and not with "---") and
\* the context lines before it in that hunk; added lines do not advance the
\* counter and the counter restarts at each hunk header
C24_OldSideCounter ==
    (parse_pc = "returned" /\ OneSectionDiff) =>
        /\ Len(DeletedOf(FooJava)) = Cardinality(TakenAsDeleted)
        /\ \A k \in DOMAIN DeletedOf(FooJava) :
              DeletedOf(FooJava)[k].line_number = CounterAt(NthOf(TakenAsDeleted, k))

\* two hunks with a deleted line each; in the second an added line comes
\* before the deleted line, which is numbered with the old start of that hunk
C24_Witness ==
    /\ parse_pc = "returned" /\ OneSectionDiff
    /\ Cardinality(HunkStarts) = 2
    /\ Len(DeletedOf(FooJava)) = 2
    /\ \E j \in TakenAsDeleted :
          /\ \E i \in HunkStarts : i < HunkOf(j)
          /\ \E p \in HunkBody(HunkOf(j)) : p < j /\ diff_output[p] = AddLine
          /\ DeletedOf(FooJava)[2].line_number = HunkMatch(diff_output[HunkOf(j)]).g1

\* C28: every removed line of a hunk, whatever its content, gives exactly one
\* deleted_lines entry, numbered with its position in the old file
C28_Original ==
    (parse_pc = "returned" /\ OneSectionDiff) =>
        DeletedOf(FooJava) =
            [k \in 1..Cardinality(RemovedPositions) |->
                [line_number |-> TrueOld(NthOf(RemovedPositions, k)),
                 content |-> Tail(diff_output[NthOf(RemovedPositions, k)])]]

\* the positions of the file section that starts at position i
SectionOf(i) ==
    {j \in DOMAIN diff_output : j > i /\ \A k \in (i + 1)..j : k \notin SectionStarts}

\* the old path of the section at i: "rename from <path>" or "--- a/<path>"
SectionOldPath(i) ==
    LET renames == {j \in SectionOf(i) : StartsWith(diff_output[j], <<"rename from ">>)}
        olds == {j \in SectionOf(i) : StartsWith(diff_output[j], Minus3 \o <<" ", "a/">>)
                                      /\ ~InHunk(j)}
    IN  IF renames # {} THEN DropChars(diff_output[CHOOSE j \in renames : TRUE], 12)
        ELSE IF olds # {} THEN DropChars(diff_output[CHOOSE j \in olds : TRUE], 6)
        ELSE NoPath

\* the deletions of the section at i
SectionDeletions(i) ==
    {[line_number |-> TrueOld(j), content |-> Tail(diff_output[j])] :
        j \in SectionOf(i) \cap RemovedPositions}

\* every hunk header is well formed and every removed line is taken as one
CleanDiff ==
    /\ \A i \in HunkStarts : HunkMatch(diff_output[i]).ok
    /\ RemovedPositions = TakenAsDeleted

\* C29: the result loses no deletions: for every file section of the text,
\* its deletions are in the deleted_lines recorded for its old path, also
\* when two sections have the same old path
C29_Original ==
    (parse_pc = "returned" /\ CleanDiff) =>
        \A i \in SectionStarts :
            SectionOldPath(i) # NoPath =>
                SectionDeletions(i) \subseteq Range(DeletedOf(SectionOldPath(i)))

(***************************************************************************)
(* More claims about _search_project_commits                               *)
(***************************************************************************)

\* the line begins with the key, with "#" and the key, or with "[", the key
\* and "]", letter case aside
LineBegins(line, issue_key) ==
    \/ (Len(line) >= 1 /\ FoldCase(line[1]) = issue_key)
    \/ (Len(line) >= 2 /\ line[1] = "#" /\ FoldCase(line[2]) = issue_key)
    \/ (Len(line) >= 3 /\ line[1] = "[" /\ FoldCase(line[2]) = issue_key /\ line[3] = "]")

\* the key occurs in the message, on no line at its beginning
OnlyInside(message, issue_key) ==
    /\ \E l \in DOMAIN message : \E i \in DOMAIN message[l] :
          FoldCase(message[l][i]) = issue_key
    /\ \A l \in DOMAIN message : ~LineBegins(message[l], issue_key)

\* C27: a commit is recorded for an issue key only if a line of its message
\* begins with the key, "#" + key or "[" + key + "]", compared without
\* regard to case; a commit whose message has the key only after other
\* characters is never recorded for that key
C27_MatchAtLineStart ==
    \A i \in DOMAIN project_results : \A c \in ScannedCommits :
        c.hexsha \in RecordedFor(i) =>
            /\ \E l \in DOMAIN c.message : LineBegins(c.message[l], project_results[i].key)
            /\ ~OnlyInside(c.message, project_results[i].key)

\* the search returned; a commit with "fix ZK-1" in its message was scanned
\* and is recorded for no issue, a commit with "[zk-1] fix" is recorded for ZK-1
C27_Witness ==
    /\ search_pc = "returned"
    /\ \E c \in ScannedCommits :
          /\ OnlyInside(c.message, "ZK-1")
          /\ c.hexsha \in Range(matched_log)
          /\ \A i \in DOMAIN project_results : c.hexsha \notin RecordedFor(i)
    /\ \E c \in ScannedCommits : \E i \in DOMAIN project_results :
          /\ project_results[i].key = "ZK-1"
          /\ c.hexsha \in RecordedFor(i)
          /\ c.message[1][1] = "["

(***************************************************************************)
(* More claims about process_single_issue                                  *)
(***************************************************************************)

\* the (version, commit) pair that is k-th in the order by version and then
\* by commit
PairVersion(k) == ((k - 1) \div Len(issue_data.commits)) + 1
PairCommit(k) == ((k - 1) % Len(issue_data.commits)) + 1

\* the pairs whose checkout succeeds
CheckedOutPairs ==
    {k \in 1..(Len(issue_data.affects) * Len(issue_data.commits)) :
        issue_data.commits[PairCommit(k)].full_sha \in base_repo.objects}

\* C30: when every clone succeeds, process_single_issue goes through every
\* (version, commit) pair once, in the order by version and then by commit,
\* and returns one entry for each pair whose checkout succeeds, in that
\* order, with the pair's affected_version and fixing_commit_sha, also when
\* the version is not resolved; the pairs whose checkout fails, and only
\* they, have no entry
C30_EntryPerPair ==
    (issue_pc = "returned" /\ issue_data.affects # <<>>) =>
        /\ issue_return = [analysis_results |-> results]
        /\ Len(unit_log) = Len(issue_data.affects) * Len(issue_data.commits)
        /\ \A k \in DOMAIN unit_log :
              /\ unit_log[k].version = PairVersion(k)
              /\ unit_log[k].commit = PairCommit(k)
              /\ unit_log[k].checked_out <=> k \in CheckedOutPairs
        /\ Len(results) = Cardinality(CheckedOutPairs)
        /\ \A r \in DOMAIN results :
              LET k == NthOf(CheckedOutPairs, r)
              IN  /\ results[r].affected_version = issue_data.affects[PairVersion(k)]
                  /\ results[r].fixing_commit_sha = issue_data.commits[PairCommit(k)].full_sha

\* two versions, one of them not resolved, and two commits, one of which
\* cannot be checked out: two entries, the first with an error
C30_Witness ==
    /\ issue_pc = "returned"
    /\ Len(issue_data.affects) = 2 /\ Len(issue_data.commits) = 2
    /\ Cardinality(CheckedOutPairs) = 2
    /\ Len(results) = 2
    /\ results[1].error # NoError
    /\ results[2].error = NoError
    /\ results[1].affected_version # results[2].affected_version

====
